---- MODULE Spec2Model ----
(***************************************************************************)
(* Billing cycle and consumption reconciliation engine of aquabill-app.    *)
(*                                                                         *)
(* The store is the database: one variable per table, a row's id being its *)
(* position in the table's sequence (autoincrement primary keys).  Every   *)
(* service method is one operator that maps a store to the store after the *)
(* call together with the value the call returned (or the exception it     *)
(* raised); an action applies one such operator to inputs drawn from small *)
(* sets and records the outcome in `last`.                                 *)
(***************************************************************************)
EXTENDS Integers, Sequences, FiniteSets, TLC

VARIABLES
    cycles,       \* table cycles: start_date, end_date, target_date, status
    assignments,  \* table meter_assignments: meter_id, status
    clients,      \* table clients: the meter_serial_number of each client
    readings,     \* table readings
    ledger,       \* table ledger_entries
    anomalies,    \* table anomalies
    conflicts,    \* table conflicts
    penalties,    \* table penalties
    payments,     \* table payments
    today,        \* date.today()
    last,         \* the last call made and what it returned
    pc            \* concurrent callers: each caller's position and locals

vars == <<cycles, assignments, clients, readings, ledger, anomalies, conflicts, penalties,
          payments, today, last, pc>>

(***************************************************************************)
(* Bounds of the model.                                                    *)
(***************************************************************************)
MaxDay == 3          \* dates are the days 1..MaxDay
MaxCycles == 2       \* rows of table cycles
MaxRaceDay == 4      \* concurrent create_cycle calls take their dates from 1..MaxRaceDay
MaxClients == 2      \* clients (and so meters and meter assignments) created
MaxLedger == 3       \* rows of tables ledger_entries, penalties and payments together

Days == 1..MaxDay

\* Optional (nullable) values: None is <<>>, a value x is <<x>>.
None == <<>>
Some(x) == <<x>>

Range(f) == {f[i] : i \in DOMAIN f}

(***************************************************************************)
(* Cycle state machine                                                     *)
(***************************************************************************)
CycleStatus == {"OPEN", "PENDING_REVIEW", "APPROVED", "CLOSED", "ARCHIVED"}

\* The CHECK constraints without ck_cycle_target_before_end: the variant
\* under which a deadline past the end of the cycle is stored.
ck_cycle_without_target_before_end(c) ==
    /\ c.start_date < c.end_date
    /\ c.target_date >= c.start_date
    /\ c.status \in CycleStatus

\* CHECK constraints of table cycles.
ck_cycle(c) ==
    /\ c.start_date < c.end_date
    /\ c.target_date >= c.start_date
    /\ c.target_date <= c.end_date
    /\ c.status \in CycleStatus

\* CycleRepository.get_overlapping: the ids of the rows the filter selects.
get_overlapping(cs, start_date, end_date) ==
    {i \in DOMAIN cs :
        \/ (cs[i].start_date <= start_date /\ cs[i].end_date > start_date)
        \/ (cs[i].start_date < end_date /\ cs[i].end_date >= end_date)
        \/ (cs[i].start_date >= start_date /\ cs[i].end_date <= end_date)}

\* CycleRepository.get_open_cycle: .first() of the OPEN rows, no ORDER BY: any of
\* them may be returned, so the operator yields the candidates.
get_open_cycle(cs) == {i \in DOMAIN cs : cs[i].status = "OPEN"}

\* CycleRepository.create: INSERT and commit; a row that breaks a CHECK
\* constraint makes the commit raise IntegrityError and stores nothing.
CycleRepository_create(cs, start_date, end_date, target_date, status) ==
    LET row == [start_date |-> start_date, end_date |-> end_date,
                target_date |-> target_date, status |-> status]
    IN  IF ck_cycle(row)
        THEN [cycles |-> Append(cs, row), result |-> "created"]
        ELSE [cycles |-> cs, result |-> "raise_IntegrityError"]

\* create_cycle without its get_open_cycle check: the variant under which a
\* second OPEN cycle can be stored.
create_cycle_without_open_check(cs, start_date, end_date, target_date, status) ==
    IF get_overlapping(cs, start_date, end_date) # {}
    THEN [cycles |-> cs, result |-> "err_overlap"]
    ELSE CycleRepository_create(cs, start_date, end_date, target_date, status)

\* CycleService.create_cycle
create_cycle(cs, start_date, end_date, target_date, status) ==
    IF get_overlapping(cs, start_date, end_date) # {}
    THEN [cycles |-> cs, result |-> "err_overlap"]
    ELSE IF status = "OPEN" /\ get_open_cycle(cs) # {}
    THEN [cycles |-> cs, result |-> "err_open_exists"]
    ELSE CycleRepository_create(cs, start_date, end_date, target_date, status)

\* CycleRepository.update_status
update_status(cs, cycle_id, new_status) ==
    IF cycle_id \in DOMAIN cs
    THEN [cs EXCEPT ![cycle_id].status = new_status]
    ELSE cs

\* A transition table that also lets a review be skipped: the variant under
\* which a status moves two steps at once.
valid_transitions_with_skip(current_status) ==
    CASE current_status = "OPEN" -> {"PENDING_REVIEW", "APPROVED"}
      [] current_status = "PENDING_REVIEW" -> {"APPROVED"}
      [] current_status = "APPROVED" -> {"CLOSED"}
      [] current_status = "CLOSED" -> {"ARCHIVED"}
      [] OTHER -> {}

\* The table valid_transitions of CycleService.transition_status.
valid_transitions(current_status) ==
    CASE current_status = "OPEN" -> {"PENDING_REVIEW"}
      [] current_status = "PENDING_REVIEW" -> {"APPROVED"}
      [] current_status = "APPROVED" -> {"CLOSED"}
      [] current_status = "CLOSED" -> {"ARCHIVED"}
      [] OTHER -> {}

\* CycleService.transition_status
transition_status(cs, cycle_id, new_status) ==
    IF cycle_id \notin DOMAIN cs
    THEN [cycles |-> cs, result |-> "err_not_found"]
    ELSE IF new_status \notin valid_transitions(cs[cycle_id].status)
    THEN [cycles |-> cs, result |-> "err_invalid_transition"]
    ELSE [cycles |-> update_status(cs, cycle_id, new_status), result |-> "ok"]

\* CycleService.auto_transition_on_deadline
auto_transition_on_deadline(cs, cycle_id, day) ==
    IF cycle_id \notin DOMAIN cs
    THEN [cycles |-> cs, result |-> "err_not_found"]
    ELSE IF cs[cycle_id].status # "OPEN"
    THEN [cycles |-> cs, result |-> "err_not_open"]
    ELSE IF cs[cycle_id].target_date >= day
    THEN [cycles |-> cs, result |-> "err_deadline_not_passed"]
    ELSE [cycles |-> update_status(cs, cycle_id, "PENDING_REVIEW"), result |-> "ok"]

\* A selection that counts the target date itself as past the deadline.
get_open_on_or_past_deadline(cs, day) ==
    {i \in DOMAIN cs : cs[i].status = "OPEN" /\ cs[i].target_date <= day}

\* CycleRepository.get_open_past_deadline
get_open_past_deadline(cs, day) ==
    {i \in DOMAIN cs : cs[i].status = "OPEN" /\ cs[i].target_date < day}

\* CycleService.auto_transition_overdue: every selected row is updated; the
\* result is the set of updated ids.
auto_transition_overdue(cs, day) ==
    LET overdue == get_open_past_deadline(cs, day)
    IN  [cycles |-> [i \in DOMAIN cs |->
                        IF i \in overdue
                        THEN [cs[i] EXCEPT !.status = "PENDING_REVIEW"]
                        ELSE cs[i]],
         result |-> overdue]

\* ArchiveService.archive_cycle.  Past the status check the method compares
\* cycle.end_date, a datetime.date, with datetime.utcnow() - timedelta(...), a
\* datetime.datetime: Python raises TypeError for that comparison, so the
\* assignment of "ARCHIVED" (line 68) is never reached.
archive_cycle(cs, cycle_id) ==
    IF cycle_id \notin DOMAIN cs
    THEN [cycles |-> cs, result |-> "err_not_found"]
    ELSE IF cs[cycle_id].status # "CLOSED"
    THEN [cycles |-> cs, result |-> "err_not_closed"]
    ELSE [cycles |-> cs, result |-> "raise_TypeError"]

(***************************************************************************)
(* Calendar (app/utils/working_days.py).  Day 1 is a Friday, so that the   *)
(* days 2 and 3 are a weekend; the model's days hold no public holiday.    *)
(***************************************************************************)
weekday(d) == (d + 3) % 7

is_working_day(d) == weekday(d) < 5

RECURSIVE get_nearest_previous_working_day(_)
get_nearest_previous_working_day(d) ==
    IF is_working_day(d) THEN d ELSE get_nearest_previous_working_day(d - 1)

\* adjust_target_date_to_working_day(target_date, prefer="previous")
adjust_target_date_to_working_day(d) ==
    IF is_working_day(d) THEN d ELSE get_nearest_previous_working_day(d)

\* CycleService.schedule_cycles, the loop from iteration i on.  An exception
\* raised by create_cycle leaves the loop and the method: the cycles committed
\* by earlier iterations stay.
RECURSIVE schedule_loop(_, _, _, _, _, _, _, _, _)
schedule_loop(cs, current_start, i, num_cycles, cycle_length_days, submission_window_days, adjust, created, errors) ==
    IF i > num_cycles
    THEN [cycles |-> cs, created |-> created, errors |-> errors, raised |-> FALSE]
    ELSE
        LET cycle_end == current_start + (cycle_length_days - 1)
            deadline0 == cycle_end + submission_window_days
            deadline == IF adjust
                        THEN adjust_target_date_to_working_day(deadline0)
                        ELSE deadline0
            r == create_cycle(cs, current_start, cycle_end, deadline, "OPEN")
        IN  IF r.result = "raise_IntegrityError"
            THEN [cycles |-> r.cycles, created |-> created, errors |-> errors,
                  raised |-> TRUE]
            ELSE schedule_loop(r.cycles, cycle_end + 1, i + 1, num_cycles,
                               cycle_length_days, submission_window_days, adjust,
                               IF r.result = "created"
                               THEN Append(created, Len(r.cycles)) ELSE created,
                               IF r.result = "created"
                               THEN errors ELSE Append(errors, i))

schedule_cycles(cs, start_date, num_cycles, cycle_length_days, submission_window_days, adjust) ==
    schedule_loop(cs, start_date, 1, num_cycles, cycle_length_days,
                  submission_window_days, adjust, <<>>, <<>>)

(***************************************************************************)
(* Actions of the cycle state machine                                      *)
(***************************************************************************)
\* The statuses the callers of create_cycle pass: the default, and a cycle
\* recorded after the fact.
CreateStatuses == {"OPEN", "CLOSED"}

\* The cycle_length_days and submission_window_days the scheduler is called with.
Lengths == {1, 2}
Windows == {0, 1}

CycleFrame == UNCHANGED <<conflicts, penalties, payments, assignments, clients, readings, ledger, anomalies, pc>>

CreateCycle ==
    \E start_date \in Days, end_date \in Days, status \in CreateStatuses :
        /\ start_date <= end_date
        /\ \E r \in {create_cycle(cycles, start_date, end_date, end_date, status)} :
            /\ Len(r.cycles) <= MaxCycles
            /\ cycles' = r.cycles
            /\ last' = [op |-> "create_cycle", result |-> r.result]
            /\ UNCHANGED today
            /\ CycleFrame

\* The requested range of dates lies within Days.
ScheduleCycles ==
    \E start_date \in Days, num_cycles \in 1..MaxCycles,
       cycle_length_days \in Lengths, submission_window_days \in Windows,
       adjust \in BOOLEAN :
        /\ start_date + num_cycles * cycle_length_days - 1 <= MaxDay
        /\ \E r \in {schedule_cycles(cycles, start_date, num_cycles,
                                     cycle_length_days, submission_window_days,
                                     adjust)} :
            /\ Len(r.cycles) <= MaxCycles
            /\ cycles' = r.cycles
            /\ last' = [op |-> "schedule_cycles",
                        result |-> IF r.raised THEN "raise_IntegrityError"
                                   ELSE IF r.errors # <<>> THEN "errors"
                                   ELSE "created",
                        num_cycles |-> num_cycles]
            /\ UNCHANGED today
            /\ CycleFrame

TransitionStatus ==
    \E cycle_id \in 1..MaxCycles, new_status \in CycleStatus :
        \E r \in {transition_status(cycles, cycle_id, new_status)} :
            /\ cycles' = r.cycles
            /\ last' = [op |-> "transition_status", result |-> r.result]
            /\ UNCHANGED today
            /\ CycleFrame

AutoTransitionOnDeadline ==
    \E cycle_id \in 1..MaxCycles :
        \E r \in {auto_transition_on_deadline(cycles, cycle_id, today)} :
            /\ cycles' = r.cycles
            /\ last' = [op |-> "auto_transition_on_deadline", result |-> r.result]
            /\ UNCHANGED today
            /\ CycleFrame

AutoTransitionOverdue ==
    \E r \in {auto_transition_overdue(cycles, today)} :
        /\ cycles' = r.cycles
        /\ last' = [op |-> "auto_transition_overdue", result |-> r.result]
        /\ UNCHANGED today
        /\ CycleFrame

ArchiveCycle ==
    \E cycle_id \in 1..MaxCycles :
        \E r \in {archive_cycle(cycles, cycle_id)} :
            /\ cycles' = r.cycles
            /\ last' = [op |-> "archive_cycle", result |-> r.result]
            /\ UNCHANGED today
            /\ CycleFrame

\* The clock: date.today() moves on.
AdvanceDay ==
    /\ today < MaxDay
    /\ today' = today + 1
    /\ last' = [op |-> "advance_day"]
    /\ UNCHANGED cycles
    /\ CycleFrame

Init ==
    /\ cycles = <<>>
    /\ assignments = <<>>
    /\ clients = <<>>
    /\ readings = <<>>
    /\ ledger = <<>>
    /\ anomalies = <<>>
    /\ conflicts = <<>>
    /\ penalties = <<>>
    /\ payments = <<>>
    /\ today = 1
    /\ last = [op |-> "init"]
    /\ pc = <<>>

NextCycle ==
    \/ CreateCycle
    \/ ScheduleCycles
    \/ TransitionStatus
    \/ AutoTransitionOnDeadline
    \/ AutoTransitionOverdue
    \/ ArchiveCycle
    \/ AdvanceDay

SpecCycle == Init /\ [][NextCycle]_vars

(***************************************************************************)
(* Properties of the cycle state machine                                   *)
(***************************************************************************)
\* C1: after any sequence of create_cycle, schedule_cycles, transition_status,
\* auto_transition_on_deadline and auto_transition_overdue calls, at most one
\* cycle of the store has status OPEN.
C1_AtMostOneOpen ==
    Cardinality({i \in DOMAIN cycles : cycles[i].status = "OPEN"}) <= 1

\* An OPEN cycle is stored and the last create_cycle call, for a range that
\* passed the overlap check, was rejected because of it.
C1_Witness ==
    /\ \E i \in DOMAIN cycles : cycles[i].status = "OPEN"
    /\ last.op = "create_cycle"
    /\ last.result = "err_open_exists"

\* C2: no two cycles of the store have [start_date, end_date] ranges that share
\* a day, both boundaries inclusive (a cycle that starts on the day another
\* ends is an overlap like any other).
C2_NoSharedDay ==
    \A i \in DOMAIN cycles : \A j \in DOMAIN cycles :
        i # j => \/ cycles[i].end_date < cycles[j].start_date
                 \/ cycles[j].end_date < cycles[i].start_date

\* C3: every change of a cycle's status is one step along
\* OPEN -> PENDING_REVIEW -> APPROVED -> CLOSED -> ARCHIVED, whichever operation
\* makes it, and transition_status with any other (current, requested) pair
\* (requested = current and any request on an ARCHIVED cycle included) returns
\* the invalid-transition error and leaves the cycles as they were.
C3_OneStepTransitions ==
    [][LET step == {<<"OPEN", "PENDING_REVIEW">>, <<"PENDING_REVIEW", "APPROVED">>,
                    <<"APPROVED", "CLOSED">>, <<"CLOSED", "ARCHIVED">>}
       IN  /\ \A i \in DOMAIN cycles :
                /\ i \in DOMAIN cycles'
                /\ \/ cycles'[i].status = cycles[i].status
                   \/ <<cycles[i].status, cycles'[i].status>> \in step
           /\ \A i \in DOMAIN cycles : \A requested \in CycleStatus :
                LET r == transition_status(cycles, i, requested)
                IN  IF <<cycles[i].status, requested>> \in step
                    THEN /\ r.result = "ok"
                         /\ r.cycles = [cycles EXCEPT ![i].status = requested]
                    ELSE /\ r.result = "err_invalid_transition"
                         /\ r.cycles = cycles
           /\ (last'.op = "transition_status" /\ last'.result # "ok")
                => cycles' = cycles
      ]_vars

\* A request on a store whose cycles are all ARCHIVED was answered with the
\* invalid-transition error.
C3_Witness ==
    /\ cycles # <<>>
    /\ \A i \in DOMAIN cycles : cycles[i].status = "ARCHIVED"
    /\ last.op = "transition_status"
    /\ last.result = "err_invalid_transition"

(***************************************************************************)
(* Concurrent create_cycle calls.  Two requests are served at once, each   *)
(* by its own session: a caller's reads (get_overlapping, get_open_cycle)  *)
(* and its INSERT are separate statements, and the statements of the two   *)
(* callers interleave.  Table cycles has CHECK constraints only (migration *)
(* 0004): no constraint makes the INSERT of a second OPEN row fail.        *)
(***************************************************************************)
Callers == {1, 2}

RaceRanges == {rg \in (1..MaxRaceDay) \X (1..MaxRaceDay) : rg[1] < rg[2]}

RaceFrame == UNCHANGED <<conflicts, penalties, payments, assignments, clients, readings, ledger, anomalies, today, last>>

\* create_cycle(start_date, end_date, target_date = end_date, status = OPEN) is
\* called.
BeginCreate(p) ==
    /\ pc[p].at = "idle"
    /\ \E rg \in RaceRanges :
        pc' = [pc EXCEPT ![p] = [at |-> "get_overlapping",
                                 start_date |-> rg[1], end_date |-> rg[2]]]
    /\ UNCHANGED cycles
    /\ RaceFrame

\* Lines 55-61 of create_cycle.
ReadOverlapping(p) ==
    /\ pc[p].at = "get_overlapping"
    /\ pc' = [pc EXCEPT ![p] =
                IF get_overlapping(cycles, pc[p].start_date, pc[p].end_date) # {}
                THEN [pc[p] EXCEPT !.at = "err_overlap"]
                ELSE [pc[p] EXCEPT !.at = "get_open_cycle"]]
    /\ UNCHANGED cycles
    /\ RaceFrame

\* Lines 64-70 of create_cycle.
ReadOpenCycle(p) ==
    /\ pc[p].at = "get_open_cycle"
    /\ pc' = [pc EXCEPT ![p] =
                IF get_open_cycle(cycles) # {}
                THEN [pc[p] EXCEPT !.at = "err_open_exists"]
                ELSE [pc[p] EXCEPT !.at = "create"]]
    /\ UNCHANGED cycles
    /\ RaceFrame

\* Lines 72-73 of create_cycle.
WriteCycle(p) ==
    /\ pc[p].at = "create"
    /\ \E r \in {CycleRepository_create(cycles, pc[p].start_date, pc[p].end_date,
                                         pc[p].end_date, "OPEN")} :
        /\ cycles' = r.cycles
        /\ pc' = [pc EXCEPT ![p] = [pc[p] EXCEPT !.at = r.result]]
    /\ RaceFrame

InitCreateRace ==
    /\ cycles = <<>>
    /\ assignments = <<>>
    /\ clients = <<>>
    /\ readings = <<>>
    /\ ledger = <<>>
    /\ anomalies = <<>>
    /\ conflicts = <<>>
    /\ penalties = <<>>
    /\ payments = <<>>
    /\ today = 1
    /\ last = [op |-> "init"]
    /\ pc = [p \in Callers |-> [at |-> "idle"]]

NextCreateRace ==
    \E p \in Callers :
        \/ BeginCreate(p)
        \/ ReadOverlapping(p)
        \/ ReadOpenCycle(p)
        \/ WriteCycle(p)

SpecCreateRace == InitCreateRace /\ [][NextCreateRace]_vars

\* C4: when two create_cycle calls with status OPEN and date ranges that share
\* no day run concurrently on a store with no OPEN cycle, at most one of them
\* creates a cycle and the store never holds two OPEN cycles.
C4_RaceKeepsOneOpen ==
    (/\ \A p \in Callers : pc[p].at # "idle"
     /\ \/ pc[1].end_date < pc[2].start_date
        \/ pc[2].end_date < pc[1].start_date)
    => /\ Cardinality({p \in Callers : pc[p].at = "created"}) <= 1
       /\ Cardinality({i \in DOMAIN cycles : cycles[i].status = "OPEN"}) <= 1

(***************************************************************************)
(* Clients, meter assignments and readings                                 *)
(***************************************************************************)
\* AssignmentStatus is a plain enum.Enum (models/meter_assignment.py:8) and
\* column status is Enum(AssignmentStatus): a loaded row's status is the enum
\* member, which Python never finds equal to the member's .value string.
AssignmentStatus_ACTIVE == "AssignmentStatus.ACTIVE"
AssignmentStatus_INACTIVE == "AssignmentStatus.INACTIVE"
AssignmentStatus_ACTIVE_value == "ACTIVE"

\* Table readings without ck_reading_consumption_non_negative.
ck_reading_without_consumption_check(r) ==
    /\ r.absolute_value >= 0
    /\ r.type \in {"BASELINE", "NORMAL"}
    /\ \/ r.approved /\ r.approved_at # None /\ r.approved_by # None
       \/ ~r.approved /\ r.approved_at = None /\ r.approved_by = None

\* CHECK constraints of table readings.
ck_reading(r) ==
    /\ r.absolute_value >= 0
    /\ (r.consumption = None \/ r.consumption[1] >= 0)
    /\ r.type \in {"BASELINE", "NORMAL"}
    /\ \/ r.approved /\ r.approved_at # None /\ r.approved_by # None
       \/ ~r.approved /\ r.approved_at = None /\ r.approved_by = None

\* ReadingRepository.get_baseline_reading (the second definition of the class,
\* which replaces the first).
get_baseline_reading(rd, meter_assignment_id) ==
    {i \in DOMAIN rd : /\ rd[i].meter_assignment_id = meter_assignment_id
                        /\ rd[i].type = "BASELINE"}

\* ReadingRepository.get_by_assignment_and_cycle
get_by_assignment_and_cycle(rd, meter_assignment_id, cycle_id) ==
    {i \in DOMAIN rd : /\ rd[i].meter_assignment_id = meter_assignment_id
                        /\ rd[i].cycle_id = cycle_id}

\* ReadingRepository.get_latest_approved: the approved readings of the
\* assignment, exclude_id apart, that ORDER BY submitted_at DESC may put first.
get_latest_approved(rd, meter_assignment_id, exclude_id) ==
    LET approved == {i \in DOMAIN rd : /\ rd[i].meter_assignment_id = meter_assignment_id
                                        /\ rd[i].approved
                                        /\ i # exclude_id}
    IN  {i \in approved : \A j \in approved : rd[j].submitted_at <= rd[i].submitted_at}

\* ClientService.create.  repo.create commits the client (a second client with
\* the same meter_serial_number breaks the unique constraint); meter,
\* assignment and baseline reading are committed together.  open_cycle is what
\* get_open_cycle returned: None or Some(id).  A meter is identified by its
\* serial number.
ClientService_create(cl, asg, rd, meter_serial_number, initial_meter_reading, open_cycle, day) ==
    IF meter_serial_number \in Range(cl)
    THEN [clients |-> cl, assignments |-> asg, readings |-> rd,
          result |-> "raise_IntegrityError"]
    ELSE
        LET closed == [i \in DOMAIN asg |->
                        IF /\ asg[i].meter_id = meter_serial_number
                           /\ asg[i].status = AssignmentStatus_ACTIVE
                        THEN [asg[i] EXCEPT !.status = AssignmentStatus_INACTIVE]
                        ELSE asg[i]]
            assignment == [meter_id |-> meter_serial_number, client_id |-> Len(cl) + 1,
                           status |-> AssignmentStatus_ACTIVE]
            baseline_reading == [meter_assignment_id |-> Len(asg) + 1,
                                 cycle_id |-> open_cycle[1],
                                 absolute_value |-> initial_meter_reading,
                                 type |-> "BASELINE", consumption |-> None,
                                 has_rollover |-> FALSE, approved |-> FALSE,
                                 approved_by |-> None, approved_at |-> None,
                                 submitted_at |-> day]
        IN  [clients |-> Append(cl, meter_serial_number),
             assignments |-> Append(closed, assignment),
             readings |-> IF open_cycle # None THEN Append(rd, baseline_reading) ELSE rd,
             result |-> "created"]

\* MeterAssignmentService.close_assignment
close_assignment(asg, assignment_id) ==
    IF assignment_id \notin DOMAIN asg
    THEN [assignments |-> asg, result |-> "not_found"]
    ELSE [assignments |-> [asg EXCEPT ![assignment_id].status = AssignmentStatus_INACTIVE],
          result |-> "closed"]

\* A submit_reading that takes the first reading of an assignment as its
\* baseline instead of rejecting it.
submit_reading_implicit_baseline(asg, cs, rd, an, meter_assignment_id, cycle_id, absolute_value, day) ==
    IF \/ meter_assignment_id \notin DOMAIN asg
       \/ cycle_id \notin DOMAIN cs
    THEN [readings |-> rd, anomalies |-> an, result |-> "err_not_found"]
    ELSE IF get_baseline_reading(rd, meter_assignment_id) = {}
    THEN [readings |-> Append(rd, [meter_assignment_id |-> meter_assignment_id,
                                   cycle_id |-> cycle_id,
                                   absolute_value |-> absolute_value,
                                   type |-> "BASELINE", consumption |-> None,
                                   has_rollover |-> FALSE, approved |-> FALSE,
                                   approved_by |-> None, approved_at |-> None,
                                   submitted_at |-> day]),
          anomalies |-> an, result |-> "created"]
    ELSE [readings |-> rd, anomalies |-> an, result |-> "err_duplicate"]

\* A submit_reading without the duplicate check: a reading is stored for any
\* assignment that has a baseline.
submit_reading_without_duplicate_check(asg, cs, rd, an, meter_assignment_id, cycle_id, absolute_value, day) ==
    IF \/ meter_assignment_id \notin DOMAIN asg
       \/ cycle_id \notin DOMAIN cs
    THEN [readings |-> rd, anomalies |-> an, result |-> "err_not_found"]
    ELSE IF get_baseline_reading(rd, meter_assignment_id) = {}
    THEN [readings |-> rd, anomalies |-> an, result |-> "err_no_baseline"]
    ELSE [readings |-> Append(rd, [meter_assignment_id |-> meter_assignment_id,
                                   cycle_id |-> cycle_id,
                                   absolute_value |-> absolute_value,
                                   type |-> "NORMAL", consumption |-> None,
                                   has_rollover |-> FALSE, approved |-> FALSE,
                                   approved_by |-> None, approved_at |-> None,
                                   submitted_at |-> day]),
          anomalies |-> an, result |-> "created"]

\* ReadingService.submit_reading.  The status of the loaded assignment, an
\* enum member, is compared with AssignmentStatus.ACTIVE.value, a string
\* (line 64).  Past the four checks the method calls repository.create with
\* the keyword type, which ReadingRepository.create (reading_type) does not
\* take: Python raises TypeError before the repository runs, so neither the
\* reading nor the anomalies of lines 108-135 are written.
submit_reading(asg, cs, rd, an, meter_assignment_id, cycle_id, absolute_value, day) ==
    IF meter_assignment_id \notin DOMAIN asg
    THEN [readings |-> rd, anomalies |-> an, result |-> "err_assignment_not_found"]
    ELSE IF asg[meter_assignment_id].status # AssignmentStatus_ACTIVE_value
    THEN [readings |-> rd, anomalies |-> an, result |-> "err_assignment_not_active"]
    ELSE IF cycle_id \notin DOMAIN cs
    THEN [readings |-> rd, anomalies |-> an, result |-> "err_cycle_not_found"]
    ELSE IF cs[cycle_id].status # "OPEN"
    THEN [readings |-> rd, anomalies |-> an, result |-> "err_cycle_not_open"]
    ELSE IF get_baseline_reading(rd, meter_assignment_id) = {}
    THEN [readings |-> rd, anomalies |-> an, result |-> "err_no_baseline"]
    ELSE IF get_by_assignment_and_cycle(rd, meter_assignment_id, cycle_id) # {}
    THEN [readings |-> rd, anomalies |-> an, result |-> "err_duplicate"]
    ELSE [readings |-> rd, anomalies |-> an, result |-> "raise_TypeError"]

\* ReadingRepository.approve: UPDATE and commit; the commit raises
\* IntegrityError when the row breaks a CHECK constraint.  day stands for
\* datetime.utcnow().
ReadingRepository_approve(rd, reading_id, approved_by, consumption, has_rollover, day) ==
    LET row == [rd[reading_id] EXCEPT !.approved = TRUE,
                                      !.approved_at = Some(day),
                                      !.approved_by = Some(approved_by),
                                      !.consumption = consumption,
                                      !.has_rollover = has_rollover]
    IN  IF ck_reading(row)
        THEN [readings |-> [rd EXCEPT ![reading_id] = row], result |-> "approved"]
        ELSE [readings |-> rd, result |-> "raise_IntegrityError"]

\* An approve_reading that measures consumption from the BASELINE reading of
\* the assignment instead of the latest approved reading.
approve_reading_from_baseline(rd, reading_id, approved_by, admin_consumption_override, prev_reading, day) ==
    IF reading_id \notin DOMAIN rd
    THEN [readings |-> rd, result |-> "err_not_found"]
    ELSE IF rd[reading_id].approved
    THEN [readings |-> rd, result |-> "err_already_approved"]
    ELSE IF rd[reading_id].type = "BASELINE"
    THEN ReadingRepository_approve(rd, reading_id, approved_by, None, FALSE, day)
    ELSE IF get_baseline_reading(rd, rd[reading_id].meter_assignment_id) = {}
    THEN [readings |-> rd, result |-> "err_no_previous"]
    ELSE
        LET baseline == CHOOSE i \in get_baseline_reading(rd, rd[reading_id].meter_assignment_id) : TRUE
            raw_consumption == rd[reading_id].absolute_value - rd[baseline].absolute_value
        IN  IF admin_consumption_override # None
            THEN ReadingRepository_approve(rd, reading_id, approved_by,
                                           admin_consumption_override, FALSE, day)
            ELSE ReadingRepository_approve(rd, reading_id, approved_by,
                                           Some(raw_consumption), raw_consumption < 0, day)

\* An approve_reading that handles a BASELINE reading as a NORMAL reading with
\* nothing before it: consumption 0, or the override.
approve_reading_baseline_zero(rd, reading_id, approved_by, admin_consumption_override, prev_reading, day) ==
    IF reading_id \notin DOMAIN rd
    THEN [readings |-> rd, result |-> "err_not_found"]
    ELSE IF rd[reading_id].approved
    THEN [readings |-> rd, result |-> "err_already_approved"]
    ELSE IF rd[reading_id].type = "BASELINE"
    THEN ReadingRepository_approve(rd, reading_id, approved_by,
                                   IF admin_consumption_override # None
                                   THEN admin_consumption_override ELSE Some(0),
                                   FALSE, day)
    ELSE IF prev_reading = None
    THEN [readings |-> rd, result |-> "err_no_previous"]
    ELSE
        LET raw_consumption == rd[reading_id].absolute_value
                               - rd[prev_reading[1]].absolute_value
        IN  IF admin_consumption_override # None
            THEN ReadingRepository_approve(rd, reading_id, approved_by,
                                           admin_consumption_override, FALSE, day)
            ELSE ReadingRepository_approve(rd, reading_id, approved_by,
                                           Some(raw_consumption), raw_consumption < 0, day)

\* An approve_reading that applies the override before the rollover test, so
\* that a negative raw difference still sets the flag.
approve_reading_override_before_rollover(rd, reading_id, approved_by, admin_consumption_override, prev_reading, day) ==
    IF reading_id \notin DOMAIN rd
    THEN [readings |-> rd, result |-> "err_not_found"]
    ELSE IF rd[reading_id].approved
    THEN [readings |-> rd, result |-> "err_already_approved"]
    ELSE IF rd[reading_id].type = "BASELINE"
    THEN ReadingRepository_approve(rd, reading_id, approved_by, None, FALSE, day)
    ELSE IF prev_reading = None
    THEN [readings |-> rd, result |-> "err_no_previous"]
    ELSE
        LET raw_consumption == rd[reading_id].absolute_value
                               - rd[prev_reading[1]].absolute_value
        IN  IF admin_consumption_override # None
            THEN ReadingRepository_approve(rd, reading_id, approved_by,
                                           admin_consumption_override,
                                           raw_consumption < 0, day)
            ELSE ReadingRepository_approve(rd, reading_id, approved_by,
                                           Some(raw_consumption), raw_consumption < 0, day)

\* An approve_reading without the test of line 223: an approved reading is
\* approved again.
approve_reading_again(rd, reading_id, approved_by, admin_consumption_override, prev_reading, day) ==
    IF reading_id \notin DOMAIN rd
    THEN [readings |-> rd, result |-> "err_not_found"]
    ELSE IF rd[reading_id].type = "BASELINE"
    THEN ReadingRepository_approve(rd, reading_id, approved_by, None, FALSE, day)
    ELSE IF prev_reading = None
    THEN [readings |-> rd, result |-> "err_no_previous"]
    ELSE
        LET raw_consumption == rd[reading_id].absolute_value
                               - rd[prev_reading[1]].absolute_value
        IN  IF admin_consumption_override # None
            THEN ReadingRepository_approve(rd, reading_id, approved_by,
                                           admin_consumption_override, FALSE, day)
            ELSE ReadingRepository_approve(rd, reading_id, approved_by,
                                           Some(raw_consumption), raw_consumption < 0, day)

\* ReadingService.approve_reading.  prev_reading is what get_latest_approved
\* returned: None or Some(id).
approve_reading(rd, reading_id, approved_by, admin_consumption_override, prev_reading, day) ==
    IF reading_id \notin DOMAIN rd
    THEN [readings |-> rd, result |-> "err_not_found"]
    ELSE IF rd[reading_id].approved
    THEN [readings |-> rd, result |-> "err_already_approved"]
    ELSE IF rd[reading_id].type = "BASELINE"
    THEN ReadingRepository_approve(rd, reading_id, approved_by, None, FALSE, day)
    ELSE IF prev_reading = None
    THEN [readings |-> rd, result |-> "err_no_previous"]
    ELSE
        LET raw_consumption == rd[reading_id].absolute_value
                               - rd[prev_reading[1]].absolute_value
        IN  IF admin_consumption_override # None
            THEN ReadingRepository_approve(rd, reading_id, approved_by,
                                           admin_consumption_override, FALSE, day)
            ELSE ReadingRepository_approve(rd, reading_id, approved_by,
                                           Some(raw_consumption), raw_consumption < 0, day)

\* ReadingService.reject_reading: past the lookup the method reads
\* reading.is_approved, an attribute class Reading does not have
\* (AttributeError).
reject_reading(rd, reading_id) ==
    IF reading_id \notin DOMAIN rd
    THEN [readings |-> rd, result |-> "err_not_found"]
    ELSE [readings |-> rd, result |-> "raise_AttributeError"]

(***************************************************************************)
(* Actions on clients and readings                                         *)
(***************************************************************************)
\* Query.first() without ORDER BY: None for no row, else any of the rows.
first(S) == IF S = {} THEN {None} ELSE {Some(i) : i \in S}

\* The date ranges of the cycles the readings are collected in, the values new
\* meters are installed with and the values read off them later.
ReadingRanges == {<<1, 2>>, <<3, 4>>}
InitialReadings == {1}
SubmitValues == {0, 2}

OpenNextCycle ==
    \E rg \in ReadingRanges :
        \E r \in {create_cycle(cycles, rg[1], rg[2], rg[2], "OPEN")} :
            /\ cycles' = r.cycles
            /\ last' = [op |-> "create_cycle", result |-> r.result]
            /\ UNCHANGED <<conflicts, penalties, payments, assignments, clients, readings, ledger, anomalies, today, pc>>

ReviewCycle ==
    \E cycle_id \in 1..Cardinality(ReadingRanges) :
        \E r \in {transition_status(cycles, cycle_id, "PENDING_REVIEW")} :
            /\ cycles' = r.cycles
            /\ last' = [op |-> "transition_status", result |-> r.result]
            /\ UNCHANGED <<conflicts, penalties, payments, assignments, clients, readings, ledger, anomalies, today, pc>>

CreateClient ==
    \E meter_serial_number \in 1..MaxClients,
       initial_meter_reading \in InitialReadings,
       open_cycle \in first(get_open_cycle(cycles)) :
        \E r \in {ClientService_create(clients, assignments, readings,
                                        meter_serial_number, initial_meter_reading,
                                        open_cycle, today)} :
            /\ clients' = r.clients
            /\ assignments' = r.assignments
            /\ readings' = r.readings
            /\ last' = [op |-> "create_client", result |-> r.result]
            /\ UNCHANGED <<conflicts, penalties, payments, cycles, ledger, anomalies, today, pc>>

CloseAssignment ==
    \E assignment_id \in 1..MaxClients :
        \E r \in {close_assignment(assignments, assignment_id)} :
            /\ assignments' = r.assignments
            /\ last' = [op |-> "close_assignment", result |-> r.result]
            /\ UNCHANGED <<conflicts, penalties, payments, cycles, clients, readings, ledger, anomalies, today, pc>>

SubmitReading ==
    \E meter_assignment_id \in 1..MaxClients,
       cycle_id \in 1..Cardinality(ReadingRanges),
       absolute_value \in SubmitValues :
        \E r \in {submit_reading(assignments, cycles, readings, anomalies,
                                  meter_assignment_id, cycle_id, absolute_value,
                                  today)} :
            /\ readings' = r.readings
            /\ anomalies' = r.anomalies
            /\ last' = [op |-> "submit_reading", result |-> r.result,
                        meter_assignment_id |-> meter_assignment_id,
                        cycle_id |-> cycle_id]
            /\ UNCHANGED <<conflicts, penalties, payments, cycles, assignments, clients, ledger, today, pc>>

\* The consumption an admin may pass to approve_reading (Query(None), any
\* Decimal): none, a positive one, a negative one.
Overrides == {None, Some(1), Some(-1)}

\* reading_id names a stored reading or the first id that names none.
ApproveReading ==
    \E reading_id \in 1..(Len(readings) + 1), admin_consumption_override \in Overrides :
        \E prev_reading \in
                IF reading_id \in DOMAIN readings
                THEN first(get_latest_approved(readings,
                             readings[reading_id].meter_assignment_id, reading_id))
                ELSE {None} :
            \E r \in {approve_reading(readings, reading_id, "admin",
                                       admin_consumption_override, prev_reading,
                                       today)} :
                /\ readings' = r.readings
                /\ last' = [op |-> "approve_reading", result |-> r.result,
                            reading_id |-> reading_id,
                            admin_consumption_override |-> admin_consumption_override,
                            prev_reading |-> prev_reading]
                /\ UNCHANGED <<conflicts, penalties, payments, cycles, assignments, clients, ledger, anomalies, today, pc>>

RejectReading ==
    \E reading_id \in 1..MaxClients :
        \E r \in {reject_reading(readings, reading_id)} :
            /\ readings' = r.readings
            /\ last' = [op |-> "reject_reading", result |-> r.result,
                        reading_id |-> reading_id]
            /\ UNCHANGED <<conflicts, penalties, payments, cycles, assignments, clients, ledger, anomalies, today, pc>>

NextReadings ==
    \/ OpenNextCycle
    \/ ReviewCycle
    \/ CreateClient
    \/ CloseAssignment
    \/ SubmitReading
    \/ ApproveReading
    \/ RejectReading

SpecReadings == Init /\ [][NextReadings]_vars

C10_EarliestFailingCheck ==
    \A a \in 1..MaxClients : \A c \in 1..Cardinality(ReadingRanges) : \A v \in SubmitValues :
        LET r == submit_reading(assignments, cycles, readings, anomalies, a, c, v, today)
            earliest ==
                IF a \notin DOMAIN assignments THEN "err_assignment_not_found"
                ELSE IF assignments[a].status # AssignmentStatus_ACTIVE
                THEN "err_assignment_not_active"
                ELSE IF c \notin DOMAIN cycles THEN "err_cycle_not_found"
                ELSE IF cycles[c].status # "OPEN" THEN "err_cycle_not_open"
                ELSE IF \A i \in DOMAIN readings :
                          ~(readings[i].meter_assignment_id = a /\ readings[i].type = "BASELINE")
                THEN "err_no_baseline"
                ELSE IF \E i \in DOMAIN readings :
                          readings[i].meter_assignment_id = a /\ readings[i].cycle_id = c
                THEN "err_duplicate"
                ELSE "none"
        IN  earliest # "none"
            => /\ r.result = earliest
               /\ r.readings = readings
               /\ r.anomalies = anomalies

(***************************************************************************)
(* Ledger and charge generation.  Quantities are fixed-point integers: a   *)
(* consumption counts 1/10000 m3 (NUMERIC(9,4)), a rate and an amount      *)
(* count cents (NUMERIC(12,2)).                                            *)
(***************************************************************************)
\* The description of an entry: its wording and the row the wording names.
\* generate_cycle_charges writes "Cycle {cycle_id} charge: ...".
charge_description(cycle_id) == [text |-> "Cycle charge", id |-> cycle_id]

\* apply_penalty_to_ledger writes "{reason} (penalty_id={penalty_id})".
penalty_description(penalty_id) == [text |-> "penalty_id", id |-> penalty_id]

\* allocate_payment_fifo writes "Payment allocation (payment_id={payment_id}, ...)".
allocation_description(payment_id, charge_id) ==
    [text |-> "Payment allocation", id |-> payment_id, charge_id |-> charge_id]

\* The description an administrator types into POST /billing/ledger.
manual_description == [text |-> "manual", id |-> 0]

\* CHECK constraints of table ledger_entries.
ck_ledger(e) ==
    /\ e.amount >= 0
    /\ e.entry_type \in {"CHARGE", "ADJUSTMENT", "PAYMENT", "PENALTY"}

\* A create that keeps one entry per (assignment, cycle, type): an existing
\* entry is overwritten.
LedgerEntryRepository_upsert(lg, meter_assignment_id, cycle_id, entry_type, amount, is_credit, description, created_by) ==
    LET entry == [meter_assignment_id |-> meter_assignment_id, cycle_id |-> cycle_id,
                  entry_type |-> entry_type, amount |-> amount,
                  is_credit |-> is_credit, description |-> description,
                  created_by |-> created_by]
        same == {i \in DOMAIN lg : /\ lg[i].meter_assignment_id = meter_assignment_id
                                    /\ lg[i].cycle_id = cycle_id
                                    /\ lg[i].entry_type = entry_type}
    IN  IF ~ck_ledger(entry)
        THEN [ledger |-> lg, result |-> "raise_IntegrityError"]
        ELSE IF same = {}
        THEN [ledger |-> Append(lg, entry), result |-> "created"]
        ELSE [ledger |-> [i \in DOMAIN lg |-> IF i \in same THEN entry ELSE lg[i]],
              result |-> "created"]

\* LedgerEntryRepository.create
LedgerEntryRepository_create(lg, meter_assignment_id, cycle_id, entry_type, amount, is_credit, description, created_by) ==
    LET entry == [meter_assignment_id |-> meter_assignment_id, cycle_id |-> cycle_id,
                  entry_type |-> entry_type, amount |-> amount,
                  is_credit |-> is_credit, description |-> description,
                  created_by |-> created_by]
    IN  IF ck_ledger(entry)
        THEN [ledger |-> Append(lg, entry), result |-> "created"]
        ELSE [ledger |-> lg, result |-> "raise_IntegrityError"]

\* A lookup that never finds the existing CHARGE.
get_charge_never_found(lg, meter_assignment_id, cycle_id) == {}

\* LedgerEntryRepository.get_charge_for_assignment_cycle
get_charge_for_assignment_cycle(lg, meter_assignment_id, cycle_id) ==
    {i \in DOMAIN lg : /\ lg[i].meter_assignment_id = meter_assignment_id
                        /\ lg[i].cycle_id = cycle_id
                        /\ lg[i].entry_type = "CHARGE"}

\* LedgerService.create_entry
create_entry(asg, cs, lg, meter_assignment_id, cycle_id, entry_type, amount, is_credit, description, created_by) ==
    IF meter_assignment_id \notin DOMAIN asg
    THEN [ledger |-> lg, result |-> "err_assignment_not_found"]
    ELSE IF cycle_id \notin DOMAIN cs
    THEN [ledger |-> lg, result |-> "err_cycle_not_found"]
    ELSE LedgerEntryRepository_create(lg, meter_assignment_id, cycle_id, entry_type,
                                      amount, is_credit, description, created_by)

\* ReadingRepository.get_approved_by_cycle
get_approved_by_cycle(rd, cycle_id) ==
    {i \in DOMAIN rd : rd[i].cycle_id = cycle_id /\ rd[i].approved}

\* The readings generate_cycle_charges adds up (lines 226-237): consumption
\* set, no rollover flag, not negative.
billable_readings(rd, cycle_id) ==
    {i \in get_approved_by_cycle(rd, cycle_id) :
        /\ rd[i].consumption # None
        /\ ~rd[i].has_rollover
        /\ rd[i].consumption[1] >= 0}

RECURSIVE sum_consumption(_, _)
sum_consumption(rd, ids) ==
    IF ids = {} THEN 0
    ELSE LET i == CHOOSE x \in ids : TRUE
         IN  rd[i].consumption[1] + sum_consumption(rd, ids \ {i})

\* consumption_map of generate_cycle_charges
consumption_map(rd, cycle_id) ==
    LET billable == billable_readings(rd, cycle_id)
    IN  [a \in {rd[i].meter_assignment_id : i \in billable} |->
            sum_consumption(rd, {i \in billable : rd[i].meter_assignment_id = a})]

\* The keys of consumption_map in the order the loop visits them (a dict keeps
\* insertion order; the rows are taken in id order).
RECURSIVE map_keys(_, _, _)
map_keys(rd, ids, seen) ==
    IF ids = {} THEN <<>>
    ELSE LET i == CHOOSE x \in ids : \A y \in ids : x <= y
             a == rd[i].meter_assignment_id
         IN  IF a \in seen
             THEN map_keys(rd, ids \ {i}, seen)
             ELSE <<a>> \o map_keys(rd, ids \ {i}, seen \cup {a})

\* A rounding that drops the fraction of a cent.
quantize_amount_round_down(total_m3, rate_per_m3) == (total_m3 * rate_per_m3) \div 10000

\* (total_m3 * rate_per_m3).quantize(Decimal("0.01"), rounding=ROUND_HALF_UP)
\* for a product that is not negative.
quantize_amount(total_m3, rate_per_m3) == (total_m3 * rate_per_m3 + 5000) \div 10000

\* Column amount of ledger_entries is Numeric(12, 2): PostgreSQL refuses an
\* amount of 10^10 (10^12 cents) or more with "numeric field overflow", a
\* DataError of the commit.  The product is compared in whole m3 times units
\* of 10^7 cents, which decides it exactly for a total that is below 1 m3 or
\* a whole number of m3 and a tariff that is below or a multiple of 10^7.
numeric_overflow(total_m3, rate_per_m3) ==
    (total_m3 \div 10000) * (rate_per_m3 \div 10000000) >= 100000

\* The loop of generate_cycle_charges over consumption_map (lines 242-271).
\* Every create commits on its own; an exception of a create leaves the loop
\* and the method, and the entries committed before it stay.
RECURSIVE charge_loop(_, _, _, _, _, _, _, _)
charge_loop(lg, keys, k, totals, cycle_id, rate_per_m3, created_by, summary) ==
    IF k > Len(keys)
    THEN [ledger |-> lg, summary |-> summary, raised |-> FALSE]
    ELSE
        LET assignment_id == keys[k]
            total_m3 == totals[assignment_id]
        IN  IF total_m3 <= 0
            THEN charge_loop(lg, keys, k + 1, totals, cycle_id, rate_per_m3, created_by,
                             [summary EXCEPT !.skipped_zero_amount = @ + 1])
            ELSE IF get_charge_for_assignment_cycle(lg, assignment_id, cycle_id) # {}
            THEN charge_loop(lg, keys, k + 1, totals, cycle_id, rate_per_m3, created_by,
                             [summary EXCEPT !.skipped_existing = @ + 1])
            ELSE IF numeric_overflow(total_m3, rate_per_m3)
            THEN [ledger |-> lg, summary |-> summary, raised |-> TRUE]
            ELSE charge_loop(LedgerEntryRepository_create(lg, assignment_id, cycle_id,
                                 "CHARGE", quantize_amount(total_m3, rate_per_m3),
                                 FALSE, charge_description(cycle_id), created_by).ledger,
                             keys, k + 1, totals, cycle_id, rate_per_m3, created_by,
                             [summary EXCEPT !.created = @ + 1])

\* A generate_cycle_charges that bills a cycle in any status.
generate_cycle_charges_any_status(cs, rd, lg, cycle_id, rate_per_m3, created_by) ==
    IF cycle_id \notin DOMAIN cs
    THEN [ledger |-> lg, result |-> "err_not_found"]
    ELSE
        LET r == charge_loop(lg, map_keys(rd, billable_readings(rd, cycle_id), {}), 1,
                             consumption_map(rd, cycle_id), cycle_id, rate_per_m3,
                             created_by,
                             [created |-> 0, skipped_existing |-> 0,
                              skipped_zero_amount |-> 0])
        IN  IF r.raised
            THEN [ledger |-> r.ledger, result |-> "raise_DataError"]
            ELSE [ledger |-> r.ledger, result |-> "ok", summary |-> r.summary]

\* CycleService.generate_cycle_charges
generate_cycle_charges(cs, rd, lg, cycle_id, rate_per_m3, created_by) ==
    IF cycle_id \notin DOMAIN cs
    THEN [ledger |-> lg, result |-> "err_not_found"]
    ELSE IF cs[cycle_id].status # "APPROVED" /\ cs[cycle_id].status # "PENDING_REVIEW"
    THEN [ledger |-> lg, result |-> "err_status"]
    ELSE
        LET r == charge_loop(lg, map_keys(rd, billable_readings(rd, cycle_id), {}), 1,
                             consumption_map(rd, cycle_id), cycle_id, rate_per_m3,
                             created_by,
                             [created |-> 0, skipped_existing |-> 0,
                              skipped_zero_amount |-> 0])
        IN  IF r.raised
            THEN [ledger |-> r.ledger, result |-> "raise_DataError"]
            ELSE [ledger |-> r.ledger, result |-> "ok", summary |-> r.summary]

(***************************************************************************)
(* The billing model starts from the store the API tests build with direct *)
(* inserts (tests/test_mobile_api.py, sample_data and test_updates): a     *)
(* CLOSED cycle that holds the approved baseline of a meter and an OPEN    *)
(* cycle that holds its approved NORMAL reading.  The model keeps two such *)
(* meters.                                                                 *)
(***************************************************************************)
Meters == {1, 2}
Consumptions == {0, 50}
Rates == {100}
EntryAmounts == {100}

\* The baselines read 10; a NORMAL reading that is not approved yet has no
\* consumption.
sample_readings(consumption, approved) ==
    [i \in 1..4 |->
        IF i <= 2
        THEN [meter_assignment_id |-> i, cycle_id |-> 1,
              absolute_value |-> 10, type |-> "BASELINE",
              consumption |-> None, has_rollover |-> FALSE, approved |-> TRUE,
              approved_by |-> Some("admin"), approved_at |-> Some(1),
              submitted_at |-> 1]
        ELSE [meter_assignment_id |-> i - 2, cycle_id |-> 2,
              absolute_value |-> 10 + consumption[i - 2], type |-> "NORMAL",
              consumption |-> IF approved[i - 2] THEN Some(consumption[i - 2]) ELSE None,
              has_rollover |-> FALSE,
              approved |-> approved[i - 2],
              approved_by |-> IF approved[i - 2] THEN Some("admin") ELSE None,
              approved_at |-> IF approved[i - 2] THEN Some(3) ELSE None,
              submitted_at |-> 3]]

InitCharges ==
    /\ cycles = <<[start_date |-> 1, end_date |-> 2, target_date |-> 2, status |-> "CLOSED"],
                  [start_date |-> 3, end_date |-> 4, target_date |-> 4, status |-> "OPEN"]>>
    /\ clients = <<1, 2>>
    /\ assignments = [i \in 1..2 |-> [meter_id |-> i, client_id |-> i,
                                       status |-> AssignmentStatus_ACTIVE]]
    /\ \E consumption \in [Meters -> Consumptions], approved \in [Meters -> BOOLEAN] :
        readings = sample_readings(consumption, approved)
    /\ ledger = <<>>
    /\ anomalies = <<>>
    /\ conflicts = <<>>
    /\ penalties = <<>>
    /\ payments = <<>>
    /\ today = 3
    /\ last = [op |-> "init"]
    /\ pc = <<>>

GenerateCycleCharges ==
    \E cycle_id \in 1..(Len(cycles) + 1), rate_per_m3 \in Rates :
        \E r \in {generate_cycle_charges(cycles, readings, ledger, cycle_id,
                                          rate_per_m3, "system")} :
            /\ Len(r.ledger) + Len(penalties) + Len(payments) <= MaxLedger
            /\ ledger' = r.ledger
            /\ last' = IF r.result = "ok"
                       THEN [op |-> "generate_cycle_charges", result |-> r.result,
                             cycle_id |-> cycle_id, summary |-> r.summary,
                             repeated |-> /\ last.op = "generate_cycle_charges"
                                          /\ last.result = "ok"
                                          /\ last.cycle_id = cycle_id]
                       ELSE [op |-> "generate_cycle_charges", result |-> r.result,
                             cycle_id |-> cycle_id]
            /\ UNCHANGED <<conflicts, penalties, payments, cycles, assignments, clients, readings, anomalies, today, pc>>

\* POST /billing/ledger with entry_type CHARGE for the billing cycle.
CreateLedgerEntry ==
    \E meter_assignment_id \in Meters, amount \in EntryAmounts :
        \E r \in {create_entry(assignments, cycles, ledger, meter_assignment_id, 2,
                                "CHARGE", amount, FALSE, manual_description, "admin")} :
            /\ Len(r.ledger) + Len(penalties) + Len(payments) <= MaxLedger
            /\ ledger' = r.ledger
            /\ last' = [op |-> "create_entry", result |-> r.result,
                        meter_assignment_id |-> meter_assignment_id]
            /\ UNCHANGED <<conflicts, penalties, payments, cycles, assignments, clients, readings, anomalies, today, pc>>

NextCharges ==
    \/ TransitionStatus
    \/ ApproveReading
    \/ GenerateCycleCharges
    \/ CreateLedgerEntry

SpecCharges == InitCharges /\ [][NextCharges]_vars

(***************************************************************************)
(* Properties of charge generation                                         *)
(***************************************************************************)
\* C5 as stated: for a cycle in PENDING_REVIEW or APPROVED the ledger holds at
\* most one CHARGE per (meter_assignment_id, cycle_id) created by
\* generate_cycle_charges, and when the first call for the cycle is followed
\* by a second one with nothing in between, the second creates no entry and
\* reports created = 0 and skipped_existing = the number of assignments the
\* first call charged.
C5_SecondCallSkipsWhatFirstCharged ==
    /\ \A i \in DOMAIN ledger : \A j \in DOMAIN ledger :
        (/\ ledger[i].entry_type = "CHARGE" /\ ledger[i].created_by = "system"
         /\ ledger[j].entry_type = "CHARGE" /\ ledger[j].created_by = "system"
         /\ ledger[i].meter_assignment_id = ledger[j].meter_assignment_id
         /\ ledger[i].cycle_id = ledger[j].cycle_id)
        => i = j
    /\ \A c \in DOMAIN cycles : \A rate \in Rates :
        (/\ cycles[c].status \in {"PENDING_REVIEW", "APPROVED"}
         /\ \A i \in DOMAIN ledger :
              ~(ledger[i].cycle_id = c /\ ledger[i].created_by = "system"))
        => LET r1 == generate_cycle_charges(cycles, readings, ledger, c, rate, "system")
               r2 == generate_cycle_charges(cycles, readings, r1.ledger, c, rate, "system")
           IN  /\ r2.ledger = r1.ledger
               /\ r2.summary.created = 0
               /\ r2.summary.skipped_existing = r1.summary.created

\* C5 amended: at most one CHARGE per pair is created by
\* generate_cycle_charges, and a call that follows another with nothing in
\* between creates no entry and reports created = 0 and skipped_existing = the
\* number of assignments the first call charged plus the number it skipped as
\* charged already.
C5_SecondCallSkipsEveryCharged ==
    /\ \A i \in DOMAIN ledger : \A j \in DOMAIN ledger :
        (/\ ledger[i].entry_type = "CHARGE" /\ ledger[i].created_by = "system"
         /\ ledger[j].entry_type = "CHARGE" /\ ledger[j].created_by = "system"
         /\ ledger[i].meter_assignment_id = ledger[j].meter_assignment_id
         /\ ledger[i].cycle_id = ledger[j].cycle_id)
        => i = j
    /\ \A c \in DOMAIN cycles : \A rate \in Rates :
        cycles[c].status \in {"PENDING_REVIEW", "APPROVED"}
        => LET r1 == generate_cycle_charges(cycles, readings, ledger, c, rate, "system")
               r2 == generate_cycle_charges(cycles, readings, r1.ledger, c, rate, "system")
           IN  /\ r2.ledger = r1.ledger
               /\ r2.summary.created = 0
               /\ r2.summary.skipped_existing
                    = r1.summary.created + r1.summary.skipped_existing
    /\ (last.op = "generate_cycle_charges" /\ last.result = "ok" /\ last.repeated)
        => last.summary.created = 0

\* generate_cycle_charges was called twice in a row for the cycle; the second
\* call created nothing and skipped both meters, one charged by the first call
\* and one charged by hand before it.
C5_Witness ==
    /\ last.op = "generate_cycle_charges"
    /\ last.result = "ok"
    /\ last.repeated
    /\ last.summary.created = 0
    /\ last.summary.skipped_existing = 2
    /\ \E i \in DOMAIN ledger : ledger[i].entry_type = "CHARGE" /\ ledger[i].created_by = "system"
    /\ \E i \in DOMAIN ledger : ledger[i].entry_type = "CHARGE" /\ ledger[i].created_by = "admin"

\* C7: the ledger holds at most one CHARGE per (meter_assignment_id, cycle_id)
\* whichever path created it, and create_entry of a CHARGE for a pair that has
\* one adds nothing.
C7_OneChargePerPair ==
    /\ \A i \in DOMAIN ledger : \A j \in DOMAIN ledger :
        (/\ ledger[i].entry_type = "CHARGE" /\ ledger[j].entry_type = "CHARGE"
         /\ ledger[i].meter_assignment_id = ledger[j].meter_assignment_id
         /\ ledger[i].cycle_id = ledger[j].cycle_id)
        => i = j
    /\ \A i \in DOMAIN ledger : \A amount \in EntryAmounts :
        ledger[i].entry_type = "CHARGE"
        => create_entry(assignments, cycles, ledger, ledger[i].meter_assignment_id,
                        ledger[i].cycle_id, "CHARGE", amount, FALSE, manual_description, "admin").ledger
           = ledger

(***************************************************************************)
(* Concurrent generate_cycle_charges calls.  Each caller reads the cycle   *)
(* and its approved readings, then walks its consumption_map: the lookup   *)
(* of an existing CHARGE and the INSERT that follows it are separate       *)
(* statements, and table ledger_entries (migration 0007) has no unique     *)
(* constraint on (meter_assignment_id, cycle_id) for CHARGE rows.          *)
(***************************************************************************)
ChargeRaceFrame == UNCHANGED <<conflicts, penalties, payments, cycles, assignments, clients, readings, anomalies, today, last>>

\* Lines 212-240 of generate_cycle_charges.
BeginGenerate(p) ==
    /\ pc[p].at = "idle"
    /\ \E cycle_id \in DOMAIN cycles, rate_per_m3 \in Rates :
        pc' = [pc EXCEPT ![p] =
                IF cycles[cycle_id].status # "APPROVED"
                   /\ cycles[cycle_id].status # "PENDING_REVIEW"
                THEN [at |-> "err_status", cycle_id |-> cycle_id]
                ELSE [at |-> "get_charge", cycle_id |-> cycle_id,
                      rate_per_m3 |-> rate_per_m3,
                      keys |-> map_keys(readings, billable_readings(readings, cycle_id), {}),
                      totals |-> consumption_map(readings, cycle_id),
                      k |-> 1, created |-> 0]]
    /\ UNCHANGED ledger
    /\ ChargeRaceFrame

\* Lines 242-254: the next assignment of the loop, up to the lookup.
ReadCharge(p) ==
    /\ pc[p].at = "get_charge"
    /\ pc' = [pc EXCEPT ![p] =
                IF pc[p].k > Len(pc[p].keys)
                THEN [pc[p] EXCEPT !.at = "returned"]
                ELSE IF pc[p].totals[pc[p].keys[pc[p].k]] <= 0
                THEN [pc[p] EXCEPT !.k = @ + 1]
                ELSE IF get_charge_for_assignment_cycle(ledger, pc[p].keys[pc[p].k],
                                                        pc[p].cycle_id) # {}
                THEN [pc[p] EXCEPT !.k = @ + 1]
                ELSE [pc[p] EXCEPT !.at = "create"]]
    /\ UNCHANGED ledger
    /\ ChargeRaceFrame

\* Lines 256-271: the INSERT of the CHARGE.
WriteCharge(p) ==
    /\ pc[p].at = "create"
    /\ ledger' = LedgerEntryRepository_create(ledger, pc[p].keys[pc[p].k], pc[p].cycle_id,
                      "CHARGE",
                      quantize_amount(pc[p].totals[pc[p].keys[pc[p].k]], pc[p].rate_per_m3),
                      FALSE, charge_description(pc[p].cycle_id), "system").ledger
    /\ pc' = [pc EXCEPT ![p] = [pc[p] EXCEPT !.at = "get_charge", !.k = @ + 1,
                                             !.created = @ + 1]]
    /\ ChargeRaceFrame

\* The store of InitCharges once the window of the billing cycle has closed or
\* the cycle is approved, every NORMAL reading approved.
InitChargeRace ==
    /\ \E status \in {"PENDING_REVIEW", "APPROVED"} :
        cycles = <<[start_date |-> 1, end_date |-> 2, target_date |-> 2, status |-> "CLOSED"],
                   [start_date |-> 3, end_date |-> 4, target_date |-> 4, status |-> status]>>
    /\ clients = <<1, 2>>
    /\ assignments = [i \in 1..2 |-> [meter_id |-> i, client_id |-> i,
                                       status |-> AssignmentStatus_ACTIVE]]
    /\ \E consumption \in [Meters -> Consumptions] :
        readings = sample_readings(consumption, [m \in Meters |-> TRUE])
    /\ ledger = <<>>
    /\ anomalies = <<>>
    /\ conflicts = <<>>
    /\ penalties = <<>>
    /\ payments = <<>>
    /\ today = 3
    /\ last = [op |-> "init"]
    /\ pc = [p \in Callers |-> [at |-> "idle"]]

NextChargeRace ==
    \E p \in Callers :
        \/ BeginGenerate(p)
        \/ ReadCharge(p)
        \/ WriteCharge(p)

SpecChargeRace == InitChargeRace /\ [][NextChargeRace]_vars

\* C6: when two generate_cycle_charges calls for the same cycle run
\* concurrently, the ledger never holds two CHARGE entries for the same
\* (meter_assignment_id, cycle_id).
C6_RaceKeepsOneChargePerPair ==
    \A i \in DOMAIN ledger : \A j \in DOMAIN ledger :
        (/\ ledger[i].entry_type = "CHARGE" /\ ledger[j].entry_type = "CHARGE"
         /\ ledger[i].meter_assignment_id = ledger[j].meter_assignment_id
         /\ ledger[i].cycle_id = ledger[j].cycle_id)
        => i = j
(***************************************************************************)
(* Approval of readings.  submit_reading stores nothing, so the readings   *)
(* an admin approves are rows inserted as the API tests insert them        *)
(* (tests/test_mobile_api.py, sample_data): one meter with its BASELINE    *)
(* reading in the first cycle and a NORMAL reading in each later cycle.    *)
(***************************************************************************)
ReadingValues == {5, 10, 60}

\* values[c] is what the meter read in cycle c; the BASELINE reads 10.  A
\* flagged store holds the second reading approved with has_rollover set and
\* no consumption, waiting for verify_rollover.
approval_readings(values, baseline_approved, flagged) ==
    [i \in 1..3 |->
        IF i = 1
        THEN [meter_assignment_id |-> 1, cycle_id |-> 1,
              absolute_value |-> 10, type |-> "BASELINE",
              consumption |-> None, has_rollover |-> FALSE,
              approved |-> baseline_approved,
              approved_by |-> IF baseline_approved THEN Some("admin") ELSE None,
              approved_at |-> IF baseline_approved THEN Some(1) ELSE None,
              submitted_at |-> 1]
        ELSE [meter_assignment_id |-> 1, cycle_id |-> i,
              absolute_value |-> values[i], type |-> "NORMAL",
              consumption |-> None, has_rollover |-> (i = 2 /\ flagged),
              approved |-> (i = 2 /\ flagged),
              approved_by |-> IF i = 2 /\ flagged THEN Some("admin") ELSE None,
              approved_at |-> IF i = 2 /\ flagged THEN Some(3) ELSE None,
              submitted_at |-> 2 * i - 1]]

InitApproval ==
    /\ cycles = <<[start_date |-> 1, end_date |-> 2, target_date |-> 2, status |-> "CLOSED"],
                  [start_date |-> 3, end_date |-> 4, target_date |-> 4, status |-> "CLOSED"],
                  [start_date |-> 5, end_date |-> 6, target_date |-> 6, status |-> "OPEN"]>>
    /\ clients = <<1>>
    /\ assignments = <<[meter_id |-> 1, client_id |-> 1, status |-> AssignmentStatus_ACTIVE]>>
    /\ \E values \in [{2, 3} -> ReadingValues], baseline_approved \in BOOLEAN,
          flagged \in BOOLEAN :
        /\ flagged => baseline_approved /\ values[2] < 10
        /\ readings = approval_readings(values, baseline_approved, flagged)
    /\ ledger = <<>>
    /\ anomalies = <<>>
    /\ conflicts = <<>>
    /\ penalties = <<>>
    /\ payments = <<>>
    /\ today = 5
    /\ last = [op |-> "init"]
    /\ pc = <<>>

\* POST /readings/{reading_id}/verify-rollover.  The route builds a
\* ReadingService and calls service.verify_rollover, a method class
\* ReadingService (services/reading_service.py) does not define: Python raises
\* AttributeError before anything is read or written.
verify_rollover(rd, reading_id, max_meter_value) ==
    [readings |-> rd, result |-> "raise_AttributeError"]

\* POST /readings/{reading_id}/reject-rollover calls
\* service.reject_rollover_as_error, which ReadingService does not define
\* either.
reject_rollover_as_error(rd, reading_id) ==
    [readings |-> rd, result |-> "raise_AttributeError"]

\* utils/precision.py, round_to_4_decimals: ROUND_HALF_UP to 0.0001.  The
\* argument is counted in halves of 0.0001, the result in 0.0001.
round_to_4_decimals(value) ==
    IF value >= 0 THEN (value + 1) \div 2 ELSE 0 - ((1 - value) \div 2)

\* utils/precision.py, consume_from_readings: the only rollover arithmetic of
\* the repository; no route or service calls it.  previous and current are
\* counted in halves of 0.0001, max_reading and the result in 0.0001.
consume_from_readings(previous, current, max_reading) ==
    LET p == round_to_4_decimals(previous)
        c == round_to_4_decimals(current)
    IN  IF c >= p
        THEN [result |-> "ok", consumption |-> round_to_4_decimals(2 * (c - p))]
        ELSE IF p >= 90000 * 10000
        THEN [result |-> "ok", consumption |-> round_to_4_decimals(2 * ((max_reading - p) + c))]
        ELSE [result |-> "raise_ValueError"]

\* The maximum an admin reports for the meter (Query(..., gt=0)).
MaxMeterValues == {100}

VerifyRollover ==
    \E reading_id \in 1..(2 * MaxClients), max_meter_value \in MaxMeterValues :
        \E r \in {verify_rollover(readings, reading_id, max_meter_value)} :
            /\ readings' = r.readings
            /\ last' = [op |-> "verify_rollover", result |-> r.result,
                        reading_id |-> reading_id]
            /\ UNCHANGED <<conflicts, penalties, payments, cycles, assignments, clients, ledger, anomalies, today, pc>>

RejectRollover ==
    \E reading_id \in 1..(2 * MaxClients) :
        \E r \in {reject_rollover_as_error(readings, reading_id)} :
            /\ readings' = r.readings
            /\ last' = [op |-> "reject_rollover_as_error", result |-> r.result,
                        reading_id |-> reading_id]
            /\ UNCHANGED <<conflicts, penalties, payments, cycles, assignments, clients, ledger, anomalies, today, pc>>

NextApproval ==
    \/ CreateClient
    \/ SubmitReading
    \/ ApproveReading
    \/ RejectReading
    \/ VerifyRollover
    \/ RejectRollover

SpecApproval == InitApproval /\ [][NextApproval]_vars

(***************************************************************************)
(* Properties of reading approval                                          *)
(***************************************************************************)
\* C11: approving, without an override, a NORMAL reading of value C whose
\* previous approved reading (the one get_latest_approved returns) has a value
\* P <= C stores consumption C - P and has_rollover = false; when the BASELINE
\* is the only approved reading of the assignment, P is the BASELINE's value.
C11_ConsumptionIsDifference ==
    \A reading_id \in DOMAIN readings :
        (~readings[reading_id].approved /\ readings[reading_id].type = "NORMAL") =>
            LET C == readings[reading_id].absolute_value
                meter_assignment_id == readings[reading_id].meter_assignment_id
                approved == {i \in DOMAIN readings :
                                /\ readings[i].meter_assignment_id = meter_assignment_id
                                /\ readings[i].approved
                                /\ i # reading_id}
            IN  /\ \A prev_reading \in first(get_latest_approved(readings, meter_assignment_id, reading_id)) :
                       (prev_reading # None /\ readings[prev_reading[1]].absolute_value <= C) =>
                           LET r == approve_reading(readings, reading_id, "admin", None,
                                                    prev_reading, today)
                           IN  /\ r.result = "approved"
                               /\ r.readings[reading_id].approved
                               /\ r.readings[reading_id].consumption
                                     = Some(C - readings[prev_reading[1]].absolute_value)
                               /\ ~r.readings[reading_id].has_rollover
                /\ \A b \in approved :
                       (approved = {b} /\ readings[b].type = "BASELINE"
                                       /\ readings[b].absolute_value <= C) =>
                           \A prev_reading \in first(get_latest_approved(readings, meter_assignment_id, reading_id)) :
                               approve_reading(readings, reading_id, "admin", None,
                                               prev_reading, today).readings[reading_id].consumption
                                   = Some(C - readings[b].absolute_value)

\* A NORMAL reading was approved without an override against a NORMAL reading
\* approved before it, and its consumption is the positive difference.
C11_Witness ==
    /\ last.op = "approve_reading"
    /\ last.result = "approved"
    /\ last.admin_consumption_override = None
    /\ last.prev_reading # None
    /\ readings[last.prev_reading[1]].type = "NORMAL"
    /\ readings[last.reading_id].type = "NORMAL"
    /\ readings[last.reading_id].consumption = Some(50)
    /\ ~readings[last.reading_id].has_rollover

\* C12: approving, without an override, a NORMAL reading of value C whose
\* previous approved reading has a value P > C succeeds: the reading is stored
\* approved with has_rollover = true and its consumption is the raw negative
\* difference C - P or null.
C12_DecreaseApprovedAsRollover ==
    \A reading_id \in DOMAIN readings :
        (~readings[reading_id].approved /\ readings[reading_id].type = "NORMAL") =>
            \A prev_reading \in first(get_latest_approved(readings,
                                    readings[reading_id].meter_assignment_id, reading_id)) :
                (/\ prev_reading # None
                 /\ readings[prev_reading[1]].absolute_value > readings[reading_id].absolute_value) =>
                    LET r == approve_reading(readings, reading_id, "admin", None,
                                             prev_reading, today)
                    IN  /\ r.result = "approved"
                        /\ r.readings[reading_id].approved
                        /\ r.readings[reading_id].has_rollover
                        /\ r.readings[reading_id].consumption
                              \in {None, Some(readings[reading_id].absolute_value
                                              - readings[prev_reading[1]].absolute_value)}

\* C13: verify_rollover(reading_id, max_meter_value, actor) on an approved
\* reading of value C with has_rollover = true, whose previous approved reading
\* has value P, sets consumption = (max_meter_value - P) + C and
\* has_rollover = false; consume_from_readings computes that consumption.
C13_VerifyRolloverRecomputes ==
    \A reading_id \in DOMAIN readings :
        (readings[reading_id].approved /\ readings[reading_id].has_rollover) =>
            \A max_meter_value \in MaxMeterValues,
               prev_reading \in first(get_latest_approved(readings,
                                    readings[reading_id].meter_assignment_id, reading_id)) :
                prev_reading # None =>
                    LET P == readings[prev_reading[1]].absolute_value
                        C == readings[reading_id].absolute_value
                        r == verify_rollover(readings, reading_id, max_meter_value)
                        f == consume_from_readings(2 * P, 2 * C, max_meter_value)
                    IN  /\ r.result = "ok"
                        /\ r.readings[reading_id].consumption = Some((max_meter_value - P) + C)
                        /\ ~r.readings[reading_id].has_rollover
                        /\ f.result = "ok"
                        /\ f.consumption = (max_meter_value - P) + C

\* C14: approving a BASELINE reading always stores consumption = null and
\* has_rollover = false and creates no anomaly, whatever its value, the
\* override passed and the other readings of the assignment.
C14_BaselineApprovedWithoutConsumption ==
    [][(/\ last'.op = "approve_reading"
        /\ last'.reading_id \in DOMAIN readings
        /\ readings[last'.reading_id].type = "BASELINE"
        /\ ~readings[last'.reading_id].approved)
       => /\ last'.result = "approved"
          /\ readings'[last'.reading_id].approved
          /\ readings'[last'.reading_id].consumption = None
          /\ ~readings'[last'.reading_id].has_rollover
          /\ anomalies' = anomalies]_vars

\* A BASELINE reading was approved with an override passed, while its
\* assignment had a NORMAL reading of a lower value.
C14_Witness ==
    /\ last.op = "approve_reading"
    /\ last.result = "approved"
    /\ readings[last.reading_id].type = "BASELINE"
    /\ last.admin_consumption_override # None
    /\ readings[last.reading_id].consumption = None
    /\ \E i \in DOMAIN readings :
          /\ i # last.reading_id
          /\ readings[i].meter_assignment_id = readings[last.reading_id].meter_assignment_id
          /\ readings[i].absolute_value < readings[last.reading_id].absolute_value

C16_ApprovedAtMostOnce ==
    [][last'.op = "approve_reading"
       => /\ (last'.reading_id \in DOMAIN readings /\ readings[last'.reading_id].approved)
                => /\ last'.result = "err_already_approved"
                   /\ readings' = readings
          /\ \A i \in DOMAIN readings :
                readings[i].approved
                    => /\ i \in DOMAIN readings'
                       /\ readings'[i].approved
                       /\ readings'[i].approved_by = readings[i].approved_by
                       /\ readings'[i].approved_at = readings[i].approved_at
                       /\ readings'[i].consumption = readings[i].consumption
                       /\ readings'[i].has_rollover = readings[i].has_rollover]_vars

\* approve_reading was called for a NORMAL reading approved by an earlier call
\* with a consumption of its own, and answered with the error.
C16_Witness ==
    /\ last.op = "approve_reading"
    /\ last.result = "err_already_approved"
    /\ last.admin_consumption_override # None
    /\ readings[last.reading_id].type = "NORMAL"
    /\ readings[last.reading_id].consumption = Some(50)
    /\ readings[last.reading_id].approved_at = Some(today)

\* C18: in every reachable state every reading with approved = true and
\* has_rollover = false has a consumption that is null or >= 0.
C18_ResolvedConsumptionNotNegative ==
    \A i \in DOMAIN readings :
        (readings[i].approved /\ ~readings[i].has_rollover)
            => \/ readings[i].consumption = None
               \/ readings[i].consumption[1] >= 0

\* A negative override has just been refused, and the store holds a NORMAL
\* reading approved with the rollover flag clear and a consumption.
C18_Witness ==
    /\ last.op = "approve_reading"
    /\ last.result = "raise_IntegrityError"
    /\ last.admin_consumption_override = Some(-1)
    /\ \E i \in DOMAIN readings :
          /\ readings[i].type = "NORMAL"
          /\ readings[i].approved
          /\ ~readings[i].has_rollover
          /\ readings[i].consumption # None

(***************************************************************************)
(* Meter assignment                                                        *)
(***************************************************************************)
\* MeterAssignmentRepository.get_active_by_meter
get_active_by_meter(asg, meter_id) ==
    {i \in DOMAIN asg : asg[i].meter_id = meter_id /\ asg[i].status = AssignmentStatus_ACTIVE}

\* An assign_meter_to_client whose baseline insert goes through as written:
\* approved, with an approval timestamp and no approver.
assign_meter_to_client_auto_approved(cl, asg, rd, meter_id, client_id, baseline_reading, day) ==
    IF get_active_by_meter(asg, meter_id) # {}
    THEN [assignments |-> asg, readings |-> rd, result |-> "err_already_assigned"]
    ELSE IF meter_id \notin Range(cl) \/ client_id \notin DOMAIN cl
    THEN [assignments |-> asg, readings |-> rd, result |-> "raise_IntegrityError"]
    ELSE [assignments |-> Append(asg, [meter_id |-> meter_id, client_id |-> client_id,
                                       status |-> AssignmentStatus_ACTIVE]),
          readings |-> Append(rd, [meter_assignment_id |-> Len(asg) + 1,
                                   cycle_id |-> 0,
                                   absolute_value |-> baseline_reading,
                                   type |-> "BASELINE", consumption |-> None,
                                   has_rollover |-> FALSE, approved |-> TRUE,
                                   approved_by |-> None, approved_at |-> Some(day),
                                   submitted_at |-> day]),
          result |-> "created"]

\* MeterAssignmentService.assign_meter_to_client.  repo.create commits the
\* ACTIVE assignment (the foreign keys need the meter and the client).  The
\* baseline is then built as Reading(reading_type=, reading_value=,
\* is_approved=, notes=, ...), keywords class Reading does not have: the
\* constructor raises TypeError, the except clause rolls back a transaction
\* that holds nothing, and the method returns the error "Failed to create
\* baseline reading".  The assignment stays; no reading is stored.
assign_meter_to_client(cl, asg, rd, meter_id, client_id, baseline_reading, day) ==
    IF get_active_by_meter(asg, meter_id) # {}
    THEN [assignments |-> asg, readings |-> rd, result |-> "err_already_assigned"]
    ELSE IF meter_id \notin Range(cl) \/ client_id \notin DOMAIN cl
    THEN [assignments |-> asg, readings |-> rd, result |-> "raise_IntegrityError"]
    ELSE [assignments |-> Append(asg, [meter_id |-> meter_id, client_id |-> client_id,
                                       status |-> AssignmentStatus_ACTIVE]),
          readings |-> rd,
          result |-> "err_baseline_failed"]

AssignMeterToClient ==
    \E meter_id \in 1..MaxClients, client_id \in 1..MaxClients,
       baseline_reading \in InitialReadings :
        \E r \in {assign_meter_to_client(clients, assignments, readings, meter_id,
                                          client_id, baseline_reading, today)} :
            /\ Len(r.assignments) <= MaxClients + 1
            /\ assignments' = r.assignments
            /\ readings' = r.readings
            /\ last' = [op |-> "assign_meter_to_client", result |-> r.result]
            /\ UNCHANGED <<conflicts, penalties, payments, cycles, clients, ledger, anomalies, today, pc>>

\* The store of the baseline tests (tests/test_client_meter_baseline_flow.py):
\* one OPEN cycle and nothing else.
InitAssignment ==
    /\ cycles = <<[start_date |-> 1, end_date |-> 2, target_date |-> 2, status |-> "OPEN"]>>
    /\ assignments = <<>>
    /\ clients = <<>>
    /\ readings = <<>>
    /\ ledger = <<>>
    /\ anomalies = <<>>
    /\ conflicts = <<>>
    /\ penalties = <<>>
    /\ payments = <<>>
    /\ today = 1
    /\ last = [op |-> "init"]
    /\ pc = <<>>

NextAssignment ==
    \/ CreateClient
    \/ AssignMeterToClient
    \/ CloseAssignment
    \/ SubmitReading
    \/ ApproveReading
    \/ RejectReading

SpecAssignment == InitAssignment /\ [][NextAssignment]_vars

list_every_assignment(lg, meter_assignment_id) ==
    [i \in 1..Len(lg) |-> lg[Len(lg) + 1 - i]]

\* LedgerEntryRepository.list_by_assignment: the entries of the assignment,
\* ORDER BY created_at DESC.
list_by_assignment(lg, meter_assignment_id) ==
    LET mine(e) == e.meter_assignment_id = meter_assignment_id
        entries == SelectSeq(lg, mine)
    IN  [i \in 1..Len(entries) |-> entries[Len(entries) + 1 - i]]

\* float(Decimal) in compute_balance's result.  Amounts are counted in cents;
\* a double holds every whole number of cents below 2^53 and distinct amounts
\* give distinct doubles, so the double is written as the cents it stands for.
float(d) == d

\* The loop of compute_balance (lines 89-103) from entry k on.
RECURSIVE balance_loop(_, _, _)
balance_loop(entries, k, acc) ==
    IF k > Len(entries) THEN acc
    ELSE
        LET entry == entries[k]
            amount == entry.amount
        IN  IF entry.is_credit
            THEN balance_loop(entries, k + 1,
                    [acc EXCEPT !.total_credits = @ + amount,
                                !.payments = IF entry.entry_type = "PAYMENT"
                                             THEN @ + amount ELSE @,
                                !.adjustments_credit = IF entry.entry_type = "ADJUSTMENT"
                                                       THEN @ + amount ELSE @])
            ELSE balance_loop(entries, k + 1,
                    [acc EXCEPT !.total_debits = @ + amount,
                                !.charges = IF entry.entry_type = "CHARGE"
                                            THEN @ + amount ELSE @,
                                !.penalties = IF entry.entry_type = "PENALTY"
                                              THEN @ + amount ELSE @,
                                !.adjustments_debit = IF entry.entry_type = "ADJUSTMENT"
                                                      THEN @ + amount ELSE @])

\* LedgerService.compute_balance
compute_balance(asg, lg, meter_assignment_id) ==
    IF meter_assignment_id \notin DOMAIN asg
    THEN [result |-> "err_not_found"]
    ELSE
        LET entries == list_by_assignment(lg, meter_assignment_id)
            acc == balance_loop(entries, 1,
                      [total_debits |-> 0, total_credits |-> 0, charges |-> 0,
                       penalties |-> 0, payments |-> 0, adjustments_debit |-> 0,
                       adjustments_credit |-> 0])
        IN  [result |-> "ok",
             meter_assignment_id |-> meter_assignment_id,
             total_debits |-> float(acc.total_debits),
             total_credits |-> float(acc.total_credits),
             net_balance |-> float(acc.total_debits - acc.total_credits),
             breakdown |-> [charges |-> float(acc.charges),
                            penalties |-> float(acc.penalties),
                            payments |-> float(acc.payments),
                            adjustments_debit |-> float(acc.adjustments_debit),
                            adjustments_credit |-> float(acc.adjustments_credit)]]

\* What POST /billing/ledger is called with: entry_type, is_credit, amount.
LedgerKinds == {<<"CHARGE", FALSE, 100>>, <<"PENALTY", FALSE, 20>>,
                <<"PAYMENT", TRUE, 70>>, <<"ADJUSTMENT", TRUE, 30>>}

\* Two ACTIVE assignments, an ARCHIVED cycle and a cycle under review, with
\* the approved readings of tests/test_mobile_api.py; no ledger entry yet.
InitLedger ==
    /\ cycles = <<[start_date |-> 1, end_date |-> 2, target_date |-> 2, status |-> "ARCHIVED"],
                  [start_date |-> 3, end_date |-> 4, target_date |-> 4,
                   status |-> "PENDING_REVIEW"]>>
    /\ clients = <<1, 2>>
    /\ assignments = [i \in 1..2 |-> [meter_id |-> i, client_id |-> i,
                                       status |-> AssignmentStatus_ACTIVE]]
    /\ readings = sample_readings([i \in Meters |-> 50], [i \in Meters |-> i = 1])
    /\ ledger = <<>>
    /\ anomalies = <<>>
    /\ conflicts = <<>>
    /\ penalties = <<>>
    /\ payments = <<>>
    /\ today = 3
    /\ last = [op |-> "init"]
    /\ pc = <<>>

\* POST /billing/ledger for the cycle under review.
PostLedgerEntry ==
    \E meter_assignment_id \in 1..(MaxClients + 1), kind \in LedgerKinds :
        \E r \in {create_entry(assignments, cycles, ledger, meter_assignment_id, 2,
                                kind[1], kind[3], kind[2], manual_description, "admin")} :
            /\ Len(r.ledger) + Len(penalties) + Len(payments) <= MaxLedger
            /\ ledger' = r.ledger
            /\ last' = [op |-> "create_entry", result |-> r.result]
            /\ UNCHANGED <<conflicts, penalties, payments, cycles, assignments, clients, readings, anomalies, today, pc>>

\* LedgerService.compute_balance, which the export of balances calls for an
\* assignment (services/export_service.py:269).
ComputeBalance ==
    \E meter_assignment_id \in 1..(MaxClients + 1) :
        \E r \in {compute_balance(assignments, ledger, meter_assignment_id)} :
            /\ last' = [op |-> "compute_balance", result |-> r.result,
                        meter_assignment_id |-> meter_assignment_id,
                        net_balance |-> IF r.result = "ok" THEN Some(r.net_balance) ELSE None]
            /\ UNCHANGED <<conflicts, penalties, payments, cycles, assignments, clients, readings, ledger, anomalies, today, pc>>

NextBalance ==
    \/ PostLedgerEntry
    \/ ComputeBalance

SpecBalance == InitLedger /\ [][NextBalance]_vars

\* C19: compute_balance(assignment) returns net_balance = (sum of the amounts
\* of the assignment's entries with is_credit = false) - (sum of the amounts
\* of its entries with is_credit = true), counting exactly the entries of
\* that assignment, and returns the same value for every insertion order of
\* the same entries.
C19_BalanceIsDebitsMinusCredits ==
    LET RECURSIVE total(_)
        total(S) == IF S = {} THEN 0
                    ELSE LET i == CHOOSE j \in S : TRUE
                         IN  ledger[i].amount + total(S \ {i})
    IN  \A a \in DOMAIN assignments :
            LET r == compute_balance(assignments, ledger, a)
                debits == {i \in DOMAIN ledger : ledger[i].meter_assignment_id = a
                                                  /\ ~ledger[i].is_credit}
                credits == {i \in DOMAIN ledger : ledger[i].meter_assignment_id = a
                                                   /\ ledger[i].is_credit}
            IN  /\ r.result = "ok"
                /\ r.net_balance = total(debits) - total(credits)
                /\ \A order \in Permutations(DOMAIN ledger) :
                      compute_balance(assignments,
                                      [i \in DOMAIN ledger |-> ledger[order[i]]],
                                      a).net_balance = r.net_balance

\* compute_balance has answered for an assignment that has a debit and a
\* credit of different amounts, while another assignment has an entry too.
C19_Witness ==
    /\ last.op = "compute_balance"
    /\ last.result = "ok"
    /\ last.net_balance = Some(-50)
    /\ \E i, j, k \in DOMAIN ledger :
          /\ ledger[i].meter_assignment_id = last.meter_assignment_id
          /\ ledger[j].meter_assignment_id = last.meter_assignment_id
          /\ ~ledger[i].is_credit
          /\ ledger[j].is_credit
          /\ i > j
          /\ ledger[k].meter_assignment_id # last.meter_assignment_id

(***************************************************************************)
(* Penalties and payments                                                  *)
(***************************************************************************)
\* CHECK constraints of table penalties.
ck_penalty(p) ==
    /\ p.amount >= 0
    /\ p.status \in {"APPLIED", "WAIVED"}
    /\ \/ p.status = "APPLIED" /\ p.waived_at = None /\ p.waived_by = None
       \/ p.status = "WAIVED" /\ p.waived_at # None /\ p.waived_by # None

\* PenaltyRepository.create; status takes the column default APPLIED.
PenaltyRepository_create(pn, meter_assignment_id, cycle_id, amount) ==
    LET penalty == [meter_assignment_id |-> meter_assignment_id, cycle_id |-> cycle_id,
                    amount |-> amount, status |-> "APPLIED",
                    waived_at |-> None, waived_by |-> None]
    IN  IF ck_penalty(penalty)
        THEN [penalties |-> Append(pn, penalty), result |-> "created"]
        ELSE [penalties |-> pn, result |-> "raise_IntegrityError"]

\* PenaltyService.create_penalty; cycle_id is None or Some(id).
create_penalty(asg, cs, pn, meter_assignment_id, cycle_id, amount) ==
    IF meter_assignment_id \notin DOMAIN asg
    THEN [penalties |-> pn, result |-> "err_assignment_not_found"]
    ELSE IF cycle_id # None /\ cycle_id[1] \notin DOMAIN cs
    THEN [penalties |-> pn, result |-> "err_cycle_not_found"]
    ELSE PenaltyRepository_create(pn, meter_assignment_id, cycle_id, amount)

\* PenaltyRepository.waive
PenaltyRepository_waive(pn, penalty_id, waived_by, day) ==
    [pn EXCEPT ![penalty_id] = [@ EXCEPT !.status = "WAIVED",
                                         !.waived_at = Some(day),
                                         !.waived_by = Some(waived_by)]]

\* PenaltyService.waive_penalty
waive_penalty(pn, penalty_id, waived_by, day) ==
    IF penalty_id \notin DOMAIN pn
    THEN [penalties |-> pn, result |-> "err_not_found"]
    ELSE IF pn[penalty_id].status = "WAIVED"
    THEN [penalties |-> pn, result |-> "err_already_waived"]
    ELSE [penalties |-> PenaltyRepository_waive(pn, penalty_id, waived_by, day),
          result |-> "waived"]

\* An apply_penalty_to_ledger that posts the penalty whatever its status.
apply_penalty_to_ledger_any_status(pn, lg, penalty_id, created_by) ==
    IF penalty_id \notin DOMAIN pn
    THEN [ledger |-> lg, result |-> "err_not_found"]
    ELSE [ledger |-> LedgerEntryRepository_create(lg, pn[penalty_id].meter_assignment_id,
                         pn[penalty_id].cycle_id[1], "PENALTY", pn[penalty_id].amount,
                         FALSE, penalty_description(penalty_id), created_by).ledger,
          result |-> "ok"]

\* An apply_penalty_to_ledger that posts an APPLIED penalty on every call.
apply_penalty_to_ledger_every_call(pn, lg, penalty_id, created_by) ==
    IF penalty_id \notin DOMAIN pn
    THEN [ledger |-> lg, result |-> "err_not_found"]
    ELSE IF pn[penalty_id].status # "APPLIED"
    THEN [ledger |-> lg, result |-> "err_not_applied"]
    ELSE [ledger |-> LedgerEntryRepository_create(lg, pn[penalty_id].meter_assignment_id,
                         pn[penalty_id].cycle_id[1], "PENALTY", pn[penalty_id].amount,
                         FALSE, penalty_description(penalty_id), created_by).ledger,
          result |-> "ok"]

\* PenaltyService.apply_penalty_to_ledger.  For an APPLIED penalty the method
\* calls ledger_repo.check_penalty_applied (line 106), which
\* LedgerEntryRepository does not define: AttributeError, before any entry is
\* created.
apply_penalty_to_ledger(pn, lg, penalty_id, created_by) ==
    IF penalty_id \notin DOMAIN pn
    THEN [ledger |-> lg, result |-> "err_not_found"]
    ELSE IF pn[penalty_id].status # "APPLIED"
    THEN [ledger |-> lg, result |-> "err_not_applied"]
    ELSE [ledger |-> lg, result |-> "raise_AttributeError"]

\* PaymentRepository.create, with CHECK amount >= 0.
PaymentRepository_create(py, client_id, meter_assignment_id, cycle_id, amount) ==
    IF amount >= 0
    THEN [payments |-> Append(py, [client_id |-> client_id,
                                   meter_assignment_id |-> Some(meter_assignment_id),
                                   cycle_id |-> cycle_id, amount |-> amount]),
          result |-> "created"]
    ELSE [payments |-> py, result |-> "raise_IntegrityError"]

\* PaymentService.create_payment; cycle_id is None or Some(id).
create_payment(asg, cs, py, meter_assignment_id, cycle_id, amount) ==
    IF meter_assignment_id \notin DOMAIN asg
    THEN [payments |-> py, result |-> "err_assignment_not_found"]
    ELSE IF cycle_id # None /\ cycle_id[1] \notin DOMAIN cs
    THEN [payments |-> py, result |-> "err_cycle_not_found"]
    ELSE PaymentRepository_create(py, asg[meter_assignment_id].client_id,
                                  meter_assignment_id, cycle_id, amount)

\* The ids of the CHARGE entries of an assignment from id k on, oldest first:
\* what the loop of allocate_payment_fifo is written to visit.
RECURSIVE charge_ids(_, _, _)
charge_ids(lg, meter_assignment_id, k) ==
    IF k > Len(lg) THEN <<>>
    ELSE (IF /\ lg[k].meter_assignment_id = meter_assignment_id
             /\ lg[k].entry_type = "CHARGE"
          THEN <<k>> ELSE <<>>)
         \o charge_ids(lg, meter_assignment_id, k + 1)

\* An allocate_payment_fifo that finds the CHARGE entries of the assignment
\* and credits each with its whole amount, whatever is left of the payment.
allocate_payment_fifo_whole_charges(py, lg, payment_id, recorded_by) ==
    IF payment_id \notin DOMAIN py
    THEN [ledger |-> lg, result |-> "err_not_found", credit_balance |-> None]
    ELSE IF py[payment_id].meter_assignment_id = None
    THEN [ledger |-> lg, result |-> "err_no_assignment", credit_balance |-> None]
    ELSE
        LET charges == charge_ids(lg, py[payment_id].meter_assignment_id[1], 1)
            credits == [k \in 1..Len(charges) |->
                          [lg[charges[k]] EXCEPT
                              !.entry_type = "PAYMENT", !.is_credit = TRUE,
                              !.description = allocation_description(payment_id, charges[k]),
                              !.created_by = recorded_by]]
        IN  [ledger |-> lg \o credits, result |-> "ok", credit_balance |-> None]

\* The loop of allocate_payment_fifo over the charges (lines 109-127).
RECURSIVE allocation_loop(_, _, _, _, _, _, _)
allocation_loop(lg, charges, k, remaining_payment, meter_assignment_id, payment_id, recorded_by) ==
    IF k > Len(charges) \/ remaining_payment <= 0
    THEN [ledger |-> lg, remaining_payment |-> remaining_payment]
    ELSE
        LET charge == lg[charges[k]]
            allocation == IF remaining_payment <= charge.amount
                          THEN remaining_payment ELSE charge.amount
        IN  allocation_loop(LedgerEntryRepository_create(lg, meter_assignment_id,
                                charge.cycle_id, "PAYMENT", allocation, TRUE,
                                allocation_description(payment_id, charges[k]),
                                recorded_by).ledger,
                            charges, k + 1, remaining_payment - allocation,
                            meter_assignment_id, payment_id, recorded_by)

\* allocate_payment_fifo as written, over a repository whose
\* get_unpaid_charges_by_assignment returns the CHARGE entries of the
\* assignment: nothing records what a payment or a charge was allocated
\* before.
allocate_payment_fifo_without_history(py, lg, payment_id, recorded_by) ==
    IF payment_id \notin DOMAIN py
    THEN [ledger |-> lg, result |-> "err_not_found", credit_balance |-> None]
    ELSE IF py[payment_id].meter_assignment_id = None
    THEN [ledger |-> lg, result |-> "err_no_assignment", credit_balance |-> None]
    ELSE
        LET a == py[payment_id].meter_assignment_id[1]
            r == allocation_loop(lg, charge_ids(lg, a, 1), 1, py[payment_id].amount,
                                 a, payment_id, recorded_by)
        IN  [ledger |-> r.ledger, result |-> "ok",
             credit_balance |-> IF r.remaining_payment = 0 THEN None
                                ELSE Some(r.remaining_payment)]

\* PaymentService.allocate_payment_fifo.  For a payment that has an assignment
\* the method calls ledger_repo.get_unpaid_charges_by_assignment (line 92),
\* which LedgerEntryRepository does not define: AttributeError, before any
\* entry is created and before anything is returned.  credit_balance is the
\* remainder the method reports in its second return value, if any.
allocate_payment_fifo(py, lg, payment_id, recorded_by) ==
    IF payment_id \notin DOMAIN py
    THEN [ledger |-> lg, result |-> "err_not_found", credit_balance |-> None]
    ELSE IF py[payment_id].meter_assignment_id = None
    THEN [ledger |-> lg, result |-> "err_no_assignment", credit_balance |-> None]
    ELSE [ledger |-> lg, result |-> "raise_AttributeError", credit_balance |-> None]

\* The amounts of penalties and payments, and the cycle they name.
PenaltyAmounts == {20}
PaymentAmounts == {70}
BillingCycles == {Some(2)}

CreatePenalty ==
    \E meter_assignment_id \in 1..MaxClients, cycle_id \in BillingCycles,
       amount \in PenaltyAmounts :
        \E r \in {create_penalty(assignments, cycles, penalties, meter_assignment_id,
                                  cycle_id, amount)} :
            /\ Len(ledger) + Len(r.penalties) + Len(payments) <= MaxLedger
            /\ penalties' = r.penalties
            /\ last' = [op |-> "create_penalty", result |-> r.result]
            /\ UNCHANGED <<conflicts, payments, cycles, assignments, clients, readings, ledger, anomalies, today, pc>>

WaivePenalty ==
    \E penalty_id \in 1..MaxLedger :
        \E r \in {waive_penalty(penalties, penalty_id, "admin", today)} :
            /\ penalties' = r.penalties
            /\ last' = [op |-> "waive_penalty", result |-> r.result]
            /\ UNCHANGED <<conflicts, payments, cycles, assignments, clients, readings, ledger, anomalies, today, pc>>

ApplyPenaltyToLedger ==
    \E penalty_id \in 1..MaxLedger :
        \E r \in {apply_penalty_to_ledger(penalties, ledger, penalty_id, "admin")} :
            /\ ledger' = r.ledger
            /\ last' = [op |-> "apply_penalty_to_ledger", result |-> r.result,
                        penalty_id |-> penalty_id,
                        repeated |-> /\ last.op = "apply_penalty_to_ledger"
                                     /\ last.penalty_id = penalty_id]
            /\ UNCHANGED <<conflicts, penalties, payments, cycles, assignments, clients, readings, anomalies, today, pc>>

CreatePayment ==
    \E meter_assignment_id \in 1..MaxClients, cycle_id \in BillingCycles,
       amount \in PaymentAmounts :
        \E r \in {create_payment(assignments, cycles, payments, meter_assignment_id,
                                  cycle_id, amount)} :
            /\ Len(ledger) + Len(penalties) + Len(r.payments) <= MaxLedger
            /\ payments' = r.payments
            /\ last' = [op |-> "create_payment", result |-> r.result]
            /\ UNCHANGED <<conflicts, penalties, cycles, assignments, clients, readings, ledger, anomalies, today, pc>>

AllocatePaymentFifo ==
    \E payment_id \in 1..MaxLedger :
        \E r \in {allocate_payment_fifo(payments, ledger, payment_id, "admin")} :
            /\ ledger' = r.ledger
            /\ last' = [op |-> "allocate_payment_fifo", result |-> r.result,
                        payment_id |-> payment_id,
                        previous |-> IF last.op = "allocate_payment_fifo"
                                     THEN Some(last.payment_id) ELSE None]
            /\ UNCHANGED <<conflicts, penalties, payments, cycles, assignments, clients, readings, anomalies, today, pc>>

NextLedger ==
    \/ TransitionStatus
    \/ GenerateCycleCharges
    \/ CreateLedgerEntry
    \/ CreatePenalty
    \/ WaivePenalty
    \/ ApplyPenaltyToLedger
    \/ CreatePayment
    \/ AllocatePaymentFifo

SpecLedger == InitLedger /\ [][NextLedger]_vars

\* C20: no operation (create_ledger_entry, generate_cycle_charges,
\* apply_penalty_to_ledger, allocate_payment_fifo, waive_penalty, a cycle
\* transition) changes or removes an existing ledger entry: the ledger only
\* grows and every entry keeps the field values it was created with.
C20_LedgerAppendOnly ==
    [][\A i \in DOMAIN ledger :
          /\ i \in DOMAIN ledger'
          /\ ledger'[i] = ledger[i]]_vars

\* A cycle transition has just been made on a store that holds a CHARGE of
\* generate_cycle_charges, a CHARGE posted by an admin and a waived penalty.
C20_Witness ==
    /\ last.op = "transition_status"
    /\ last.result = "ok"
    /\ \E i, j \in DOMAIN ledger :
          /\ ledger[i].created_by = "system"
          /\ ledger[j].created_by = "admin"
    /\ \E k \in DOMAIN penalties : penalties[k].status = "WAIVED"

min(a, b) == IF a <= b THEN a ELSE b

\* C22: allocate_payment_fifo visits the unpaid CHARGE entries of the
\* payment's assignment in creation order and creates, for each charge it
\* visits while something of the payment remains, one PAYMENT credit entry
\* of min(remaining payment, charge amount), tied to the charge's cycle, and
\* nothing else.  Stated for an assignment no PAYMENT entry has been posted
\* to yet, so that each of its CHARGE entries is unpaid.
C22_FifoAllocation ==
    \A payment_id \in DOMAIN payments :
        LET a == payments[payment_id].meter_assignment_id[1]
            r == allocate_payment_fifo(payments, ledger, payment_id, "admin")
            ids == charge_ids(ledger, a, 1)
            charges == [k \in 1..Len(ids) |-> ledger[ids[k]]]
            RECURSIVE expected(_, _)
            expected(k, remaining) ==
                IF k > Len(charges) \/ remaining <= 0 THEN <<>>
                ELSE <<[meter_assignment_id |-> a, cycle_id |-> charges[k].cycle_id,
                        entry_type |-> "PAYMENT",
                        amount |-> min(remaining, charges[k].amount),
                        is_credit |-> TRUE,
                        description |-> allocation_description(payment_id, ids[k]),
                        created_by |-> "admin"]>>
                     \o expected(k + 1, remaining - min(remaining, charges[k].amount))
        IN  (\A i \in DOMAIN ledger :
                 ledger[i].meter_assignment_id = a => ledger[i].entry_type # "PAYMENT")
            => r.ledger = ledger \o expected(1, payments[payment_id].amount)

\* C23: the amounts of the PAYMENT entries one allocate_payment_fifo call
\* creates and the credit balance it reports add up to the payment's amount,
\* and a credit balance is reported exactly when something is left over.
C23_CreditBalanceReported ==
    \A payment_id \in DOMAIN payments :
        LET r == allocate_payment_fifo(payments, ledger, payment_id, "admin")
            RECURSIVE created(_)
            created(k) == IF k > Len(r.ledger) THEN 0
                          ELSE r.ledger[k].amount + created(k + 1)
            allocated == created(Len(ledger) + 1)
        IN  /\ r.result = "ok"
            /\ allocated = payments[payment_id].amount => r.credit_balance = None
            /\ allocated < payments[payment_id].amount
                 => r.credit_balance = Some(payments[payment_id].amount - allocated)

(***************************************************************************)
(* Properties of posting penalties                                         *)
(***************************************************************************)
\* The PENALTY entries of ledger lg that apply_penalty_to_ledger wrote for
\* penalty penalty_id.
penalty_entries(lg, penalty_id) ==
    {i \in DOMAIN lg : /\ lg[i].entry_type = "PENALTY"
                        /\ lg[i].description = penalty_description(penalty_id)}

\* C24: apply_penalty_to_ledger on a WAIVED penalty returns an error and
\* creates no ledger entry; a call creates an entry only for a penalty that
\* is APPLIED at the time of the call.
C24_OnlyAppliedPenaltyPosted ==
    \A penalty_id \in 1..MaxLedger :
        LET r == apply_penalty_to_ledger(penalties, ledger, penalty_id, "admin")
        IN  /\ (penalty_id \in DOMAIN penalties /\ penalties[penalty_id].status = "WAIVED")
                 => r.result = "err_not_applied" /\ r.ledger = ledger
            /\ r.ledger # ledger
                 => penalty_id \in DOMAIN penalties /\ penalties[penalty_id].status = "APPLIED"

\* apply_penalty_to_ledger was called for a WAIVED penalty.
C24_Witness ==
    /\ last.op = "apply_penalty_to_ledger"
    /\ last.result = "err_not_applied"
    /\ last.penalty_id \in DOMAIN penalties
    /\ penalties[last.penalty_id].status = "WAIVED"

C26_OverdueSweep ==
    LET r == auto_transition_overdue(cycles, today)
        again == auto_transition_overdue(r.cycles, today)
    IN  /\ DOMAIN r.cycles = DOMAIN cycles
        /\ \A i \in DOMAIN cycles :
              IF cycles[i].status = "OPEN" /\ cycles[i].target_date < today
              THEN /\ i \in r.result
                   /\ r.cycles[i] = [cycles[i] EXCEPT !.status = "PENDING_REVIEW"]
              ELSE /\ i \notin r.result
                   /\ r.cycles[i] = cycles[i]
        /\ again.result = {}
        /\ again.cycles = r.cycles

\* A sweep has just moved a cycle and left another one alone.
C26_Witness ==
    /\ last.op = "auto_transition_overdue"
    /\ last.result # {}
    /\ \A i \in last.result : cycles[i].status = "PENDING_REVIEW"
    /\ \E i \in DOMAIN cycles : i \notin last.result

(***************************************************************************)
(* Properties of charge generation                                         *)
(***************************************************************************)
\* The rows a review can find in the billing cycle: a reading not approved
\* yet, approved readings of 0, 0.0050 and 2.0000 m3, and an approved reading
\* that carries the rollover flag.
ReadingKinds == {"unapproved", "zero", "half_cent", "whole", "rollover"}

\* Consumption in 1/10000 m3 of an approved row of each kind.
kind_consumption(kind) ==
    CASE kind = "zero" -> 0
      [] kind = "half_cent" -> 50
      [] kind = "whole" -> 20000
      [] kind = "rollover" -> 50
      [] kind = "tick" -> 1
      [] kind = "bulk" -> 100000000
      [] OTHER -> 0

\* The approved baselines of the two meters in cycle 1 and three NORMAL rows
\* in cycle 2: rows 3 and 4 of assignment 1, row 5 of assignment 2.  Table
\* readings has no unique constraint on (meter_assignment_id, cycle_id).
billing_readings(kind) ==
    [i \in 1..5 |->
        IF i <= 2
        THEN [meter_assignment_id |-> i, cycle_id |-> 1,
              absolute_value |-> 10, type |-> "BASELINE",
              consumption |-> None, has_rollover |-> FALSE, approved |-> TRUE,
              approved_by |-> Some("admin"), approved_at |-> Some(1),
              submitted_at |-> 1]
        ELSE [meter_assignment_id |-> IF i = 5 THEN 2 ELSE 1, cycle_id |-> 2,
              absolute_value |-> 10 + kind_consumption(kind[i]), type |-> "NORMAL",
              consumption |-> IF kind[i] = "unapproved" THEN None
                              ELSE Some(kind_consumption(kind[i])),
              has_rollover |-> kind[i] = "rollover",
              approved |-> kind[i] # "unapproved",
              approved_by |-> IF kind[i] = "unapproved" THEN None ELSE Some("admin"),
              approved_at |-> IF kind[i] = "unapproved" THEN None ELSE Some(3),
              submitted_at |-> 3]]

InitBilling ==
    /\ cycles = <<[start_date |-> 1, end_date |-> 2, target_date |-> 2, status |-> "CLOSED"],
                  [start_date |-> 3, end_date |-> 4, target_date |-> 4,
                   status |-> "PENDING_REVIEW"]>>
    /\ clients = <<1, 2>>
    /\ assignments = [i \in 1..2 |-> [meter_id |-> i, client_id |-> i,
                                       status |-> AssignmentStatus_ACTIVE]]
    /\ \E kind \in [3..5 -> ReadingKinds] : readings = billing_readings(kind)
    /\ ledger = <<>>
    /\ anomalies = <<>>
    /\ conflicts = <<>>
    /\ penalties = <<>>
    /\ payments = <<>>
    /\ today = 3
    /\ last = [op |-> "init"]
    /\ pc = <<>>

NextBilling ==
    \/ TransitionStatus
    \/ GenerateCycleCharges
    \/ CreateLedgerEntry

SpecBilling == InitBilling /\ [][NextBilling]_vars

\* C27: generate_cycle_charges on a cycle that is OPEN, CLOSED or ARCHIVED,
\* or on a cycle id that does not exist, returns an error and creates no
\* ledger entry.
C27_ChargesOnlyUnderReview ==
    \A cycle_id \in 1..(Len(cycles) + 1), rate_per_m3 \in Rates :
        LET r == generate_cycle_charges(cycles, readings, ledger, cycle_id,
                                        rate_per_m3, "system")
        IN  /\ cycle_id \notin DOMAIN cycles
                 => r.result = "err_not_found" /\ r.ledger = ledger
            /\ (cycle_id \in DOMAIN cycles
                 /\ cycles[cycle_id].status \in {"OPEN", "CLOSED", "ARCHIVED"})
                 => r.result = "err_status" /\ r.ledger = ledger

\* generate_cycle_charges was refused for a CLOSED cycle that holds an
\* approved reading with consumption and has no CHARGE yet.
C27_Witness ==
    /\ last.op = "generate_cycle_charges"
    /\ last.result = "err_status"
    /\ cycles[last.cycle_id].status = "CLOSED"
    /\ \E i \in billable_readings(readings, last.cycle_id) :
          /\ readings[i].consumption[1] > 0
          /\ get_charge_for_assignment_cycle(ledger, readings[i].meter_assignment_id,
                                             last.cycle_id) = {}

\* T of an assignment in a cycle: the consumption of its readings there that
\* are approved, carry no rollover flag and have a consumption.
charged_consumption(rd, meter_assignment_id, cycle_id) ==
    sum_consumption(rd, {i \in DOMAIN rd : /\ rd[i].meter_assignment_id = meter_assignment_id
                                             /\ rd[i].cycle_id = cycle_id
                                             /\ rd[i].approved
                                             /\ ~rd[i].has_rollover
                                             /\ rd[i].consumption # None})

\* The entries of a generate_cycle_charges call are CHARGE debits of
\* rate x T rounded half-up to the cent, for assignments with T > 0.
charges_are_rate_times_T(lg, r, cycle_id, rate_per_m3) ==
    \A k \in (Len(lg) + 1)..Len(r.ledger) :
        LET e == r.ledger[k]
            T == charged_consumption(readings, e.meter_assignment_id, cycle_id)
        IN  /\ e.entry_type = "CHARGE" /\ ~e.is_credit /\ e.cycle_id = cycle_id
            /\ T > 0
            /\ 10000 * e.amount - 5000 <= rate_per_m3 * T
            /\ rate_per_m3 * T < 10000 * e.amount + 5000

\* C28: every CHARGE entry generate_cycle_charges creates has amount
\* rate x T rounded half-up to 2 decimals, T being the consumption of the
\* assignment's approved readings of the cycle without rollover flag and with
\* a consumption; and every assignment with a reading in the cycle and T = 0
\* gets no CHARGE and is counted in skipped_zero_amount.
C28_ChargeIsRateTimesConsumption ==
    \A rate_per_m3 \in Rates :
        LET r == generate_cycle_charges(cycles, readings, ledger, 2, rate_per_m3, "system")
            zero == {a \in {readings[i].meter_assignment_id :
                              i \in {j \in DOMAIN readings : readings[j].cycle_id = 2}} :
                        charged_consumption(readings, a, 2) = 0}
        IN  r.result = "ok"
            => /\ charges_are_rate_times_T(ledger, r, 2, rate_per_m3)
               /\ r.summary.skipped_zero_amount = Cardinality(zero)

\* C28 with the count of skipped assignments as the code keeps it: every
\* CHARGE entry is rate x T rounded half-up, and skipped_zero_amount counts
\* the assignments that have a contributing reading in the cycle and T = 0;
\* an assignment none of whose readings contributes gets no CHARGE and is
\* not counted.
C28_ChargeIsRateTimesBilledConsumption ==
    \A rate_per_m3 \in Rates :
        LET r == generate_cycle_charges(cycles, readings, ledger, 2, rate_per_m3, "system")
            contributing == {i \in DOMAIN readings : /\ readings[i].cycle_id = 2
                                                     /\ readings[i].approved
                                                     /\ ~readings[i].has_rollover
                                                     /\ readings[i].consumption # None}
            zero == {a \in {readings[i].meter_assignment_id : i \in contributing} :
                        charged_consumption(readings, a, 2) = 0}
        IN  r.result = "ok"
            => /\ charges_are_rate_times_T(ledger, r, 2, rate_per_m3)
               /\ r.summary.skipped_zero_amount = Cardinality(zero)

\* A call has charged assignment 1 for two readings, one of them of half a
\* cent, next to a rollover or unapproved reading of assignment 2.
C28_Witness ==
    /\ last.op = "generate_cycle_charges"
    /\ last.result = "ok"
    /\ last.summary.created = 1
    /\ charged_consumption(readings, 1, 2) = 20050
    /\ \E i \in DOMAIN ledger : /\ ledger[i].entry_type = "CHARGE"
                                  /\ ledger[i].meter_assignment_id = 1
                                  /\ ledger[i].amount = 201
    /\ readings[5].has_rollover

(***************************************************************************)
(* Anomalies.  A row of table anomalies keeps its status and who            *)
(* acknowledged and resolved it, and when.                                  *)
(***************************************************************************)
MaxAnomalies == 1
Admins == {"admin1", "admin2"}

\* The members of enum AnomalyType, which are also the types CHECK
\* ck_anomaly_type_valid of the model admits.  METER_ROLLOVER_THRESHOLD is
\* not one of them.
AnomalyType ==
    {"NEGATIVE_CONSUMPTION", "DOUBLE_SUBMISSION", "LATE_SUBMISSION", "MISSING_BASELINE",
     "MISSING_READING", "ROLLOVER_WITHOUT_LIMIT"}

\* CHECK constraints ck_anomaly_type_valid, ck_anomaly_severity_valid,
\* ck_anomaly_status_valid, ck_anomaly_ack_consistency and
\* ck_anomaly_resolution_consistency of table anomalies.
ck_anomaly(a) ==
    /\ a.anomaly_type \in AnomalyType
    /\ a.severity \in {"INFO", "WARNING", "CRITICAL"}
    /\ a.status \in {"DETECTED", "ACKNOWLEDGED", "RESOLVED"}
    /\ \/ /\ a.status = "DETECTED"
          /\ a.acknowledged_at = None /\ a.acknowledged_by = None
       \/ /\ a.status \in {"ACKNOWLEDGED", "RESOLVED"}
          /\ a.acknowledged_at # None /\ a.acknowledged_by # None
    /\ a.status # "RESOLVED" \/ (a.resolved_at # None /\ a.resolved_by # None)

\* AnomalyRepository.create: the row starts DETECTED.
AnomalyRepository_create(an, anomaly_type, meter_assignment_id, cycle_id, severity) ==
    Append(an, [anomaly_type |-> anomaly_type, severity |-> severity,
                meter_assignment_id |-> meter_assignment_id, cycle_id |-> cycle_id,
                status |-> "DETECTED",
                acknowledged_at |-> None, acknowledged_by |-> None,
                resolved_at |-> None, resolved_by |-> None])

\* AnomalyService.create_anomaly
create_anomaly(an, anomaly_type, meter_assignment_id, cycle_id, severity) ==
    AnomalyRepository_create(an, anomaly_type, meter_assignment_id, cycle_id, severity)

\* AnomalyRepository.acknowledge: the commit fails on a CHECK constraint.
AnomalyRepository_acknowledge(an, anomaly_id, acknowledged_by, now) ==
    LET updated == [an[anomaly_id] EXCEPT !.status = "ACKNOWLEDGED",
                                          !.acknowledged_at = Some(now),
                                          !.acknowledged_by = Some(acknowledged_by)]
    IN  IF ck_anomaly(updated)
        THEN [anomalies |-> [an EXCEPT ![anomaly_id] = updated], result |-> "ok"]
        ELSE [anomalies |-> an, result |-> "raise_IntegrityError"]

\* AnomalyRepository.resolve: the commit fails on a CHECK constraint.
AnomalyRepository_resolve(an, anomaly_id, resolved_by, now) ==
    LET updated == [an[anomaly_id] EXCEPT !.status = "RESOLVED",
                                          !.resolved_at = Some(now),
                                          !.resolved_by = Some(resolved_by)]
    IN  IF ck_anomaly(updated)
        THEN [anomalies |-> [an EXCEPT ![anomaly_id] = updated], result |-> "ok"]
        ELSE [anomalies |-> an, result |-> "raise_IntegrityError"]

\* AnomalyService.acknowledge_anomaly
acknowledge_anomaly(an, anomaly_id, acknowledged_by, now) ==
    IF anomaly_id \notin DOMAIN an
    THEN [anomalies |-> an, result |-> "err_not_found"]
    ELSE IF an[anomaly_id].status # "DETECTED"
    THEN [anomalies |-> an, result |-> "err_already"]
    ELSE AnomalyRepository_acknowledge(an, anomaly_id, acknowledged_by, now)

\* AnomalyService.resolve_anomaly.  Only RESOLVED is turned away by the
\* method; for a DETECTED anomaly the UPDATE leaves acknowledged_at NULL and
\* fails on ck_anomaly_ack_consistency.
resolve_anomaly(an, anomaly_id, resolved_by, now) ==
    IF anomaly_id \notin DOMAIN an
    THEN [anomalies |-> an, result |-> "err_not_found"]
    ELSE IF an[anomaly_id].status = "RESOLVED"
    THEN [anomalies |-> an, result |-> "err_already"]
    ELSE AnomalyRepository_resolve(an, anomaly_id, resolved_by, now)

\* POST /issues/anomalies for the assignment and the cycle of the store;
\* schema AnomalyCreate admits the members of AnomalyType only.
CreateAnomaly ==
    /\ Len(anomalies) < MaxAnomalies
    /\ anomalies' = create_anomaly(anomalies, "LATE_SUBMISSION", 1, 1, "INFO")
    /\ last' = [op |-> "create_anomaly", result |-> "created"]
    /\ UNCHANGED <<conflicts, penalties, payments, cycles, assignments, clients, readings, ledger, today, pc>>

\* POST /issues/anomalies/{anomaly_id}/acknowledge
AcknowledgeAnomaly ==
    \E anomaly_id \in 1..(Len(anomalies) + 1), acknowledged_by \in Admins :
        \E r \in {acknowledge_anomaly(anomalies, anomaly_id, acknowledged_by, today)} :
            /\ anomalies' = r.anomalies
            /\ last' = [op |-> "acknowledge_anomaly", result |-> r.result,
                        anomaly_id |-> anomaly_id]
            /\ UNCHANGED <<conflicts, penalties, payments, cycles, assignments, clients, readings, ledger, today, pc>>

\* POST /issues/anomalies/{anomaly_id}/resolve
ResolveAnomaly ==
    \E anomaly_id \in 1..(Len(anomalies) + 1), resolved_by \in Admins :
        \E r \in {resolve_anomaly(anomalies, anomaly_id, resolved_by, today)} :
            /\ anomalies' = r.anomalies
            /\ last' = [op |-> "resolve_anomaly", result |-> r.result,
                        anomaly_id |-> anomaly_id]
            /\ UNCHANGED <<conflicts, penalties, payments, cycles, assignments, clients, readings, ledger, today, pc>>

\* A store with one client, its ACTIVE assignment and one OPEN cycle.
InitIssues ==
    /\ cycles = <<[start_date |-> 1, end_date |-> 2, target_date |-> 2, status |-> "OPEN"]>>
    /\ clients = <<1>>
    /\ assignments = <<[meter_id |-> 1, client_id |-> 1, status |-> AssignmentStatus_ACTIVE]>>
    /\ readings = <<>>
    /\ ledger = <<>>
    /\ anomalies = <<>>
    /\ conflicts = <<>>
    /\ penalties = <<>>
    /\ payments = <<>>
    /\ today = 1
    /\ last = [op |-> "init"]
    /\ pc = <<>>

NextAnomaly ==
    \/ CreateAnomaly
    \/ AcknowledgeAnomaly
    \/ ResolveAnomaly
    \/ AdvanceDay

SpecAnomaly == InitIssues /\ [][NextAnomaly]_vars

\* C29: the status of an anomaly changes only from DETECTED to ACKNOWLEDGED,
\* by acknowledge_anomaly, and from ACKNOWLEDGED to RESOLVED, by
\* resolve_anomaly; resolve_anomaly on a DETECTED anomaly is rejected with an
\* error; acknowledging an ACKNOWLEDGED or RESOLVED anomaly and resolving a
\* RESOLVED one return the already-in-state error; and a rejected call
\* leaves the row as it was.
C29_AnomalyLifecycle ==
    [][/\ \A i \in DOMAIN anomalies :
            /\ i \in DOMAIN anomalies'
            /\ anomalies'[i] # anomalies[i]
                 => \/ /\ anomalies[i].status = "DETECTED"
                       /\ anomalies'[i].status = "ACKNOWLEDGED"
                       /\ last'.op = "acknowledge_anomaly" /\ last'.anomaly_id = i
                    \/ /\ anomalies[i].status = "ACKNOWLEDGED"
                       /\ anomalies'[i].status = "RESOLVED"
                       /\ last'.op = "resolve_anomaly" /\ last'.anomaly_id = i
       /\ \A i \in DOMAIN anomalies : \A admin \in Admins :
            LET ack == acknowledge_anomaly(anomalies, i, admin, today)
                res == resolve_anomaly(anomalies, i, admin, today)
            IN  /\ anomalies[i].status = "DETECTED"
                     => /\ res.result \notin {"ok", "raise_IntegrityError"}
                        /\ res.anomalies = anomalies
                /\ anomalies[i].status \in {"ACKNOWLEDGED", "RESOLVED"}
                     => ack.result = "err_already" /\ ack.anomalies = anomalies
                /\ anomalies[i].status = "RESOLVED"
                     => res.result = "err_already" /\ res.anomalies = anomalies]_vars

(***************************************************************************)
(* Conflicts.  A row of table conflicts keeps its status, the administrator *)
(* it is assigned to and who resolved it, and when.                         *)
(***************************************************************************)
MaxConflicts == 1

\* CHECK constraints ck_conflict_status_valid,
\* ck_conflict_assignment_consistency and ck_conflict_resolution_consistency
\* of table conflicts.
ck_conflict(c) ==
    /\ c.status \in {"OPEN", "ASSIGNED_TO_ADMIN", "RESOLVED", "ARCHIVED"}
    /\ \/ c.status = "OPEN" /\ c.assigned_to = None /\ c.assigned_at = None
       \/ /\ c.status \in {"ASSIGNED_TO_ADMIN", "RESOLVED", "ARCHIVED"}
          /\ c.assigned_to # None /\ c.assigned_at # None
    /\ c.status # "RESOLVED" \/ (c.resolved_at # None /\ c.resolved_by # None)

\* The commit of an UPDATE of row conflict_id: it fails on a CHECK constraint.
commit_conflict(cf, conflict_id, updated) ==
    IF ck_conflict(updated)
    THEN [conflicts |-> [cf EXCEPT ![conflict_id] = updated], result |-> "ok"]
    ELSE [conflicts |-> cf, result |-> "raise_IntegrityError"]

\* ConflictRepository.create: the row starts OPEN.
ConflictRepository_create(cf, meter_assignment_id, cycle_id) ==
    Append(cf, [meter_assignment_id |-> meter_assignment_id, cycle_id |-> cycle_id,
                status |-> "OPEN", assigned_to |-> None, assigned_at |-> None,
                resolved_at |-> None, resolved_by |-> None])

\* ConflictService.create_conflict
create_conflict(cf, meter_assignment_id, cycle_id) ==
    ConflictRepository_create(cf, meter_assignment_id, cycle_id)

\* ConflictRepository.assign
ConflictRepository_assign(cf, conflict_id, assigned_to, now) ==
    commit_conflict(cf, conflict_id,
                    [cf[conflict_id] EXCEPT !.status = "ASSIGNED_TO_ADMIN",
                                            !.assigned_to = Some(assigned_to),
                                            !.assigned_at = Some(now)])

\* ConflictRepository.resolve
ConflictRepository_resolve(cf, conflict_id, resolved_by, now) ==
    commit_conflict(cf, conflict_id,
                    [cf[conflict_id] EXCEPT !.status = "RESOLVED",
                                            !.resolved_at = Some(now),
                                            !.resolved_by = Some(resolved_by)])

\* ConflictRepository.archive
ConflictRepository_archive(cf, conflict_id) ==
    commit_conflict(cf, conflict_id, [cf[conflict_id] EXCEPT !.status = "ARCHIVED"])

\* ConflictService.assign_conflict: refused for RESOLVED and ARCHIVED.
assign_conflict(cf, conflict_id, assigned_to, now) ==
    IF conflict_id \notin DOMAIN cf
    THEN [conflicts |-> cf, result |-> "err_not_found"]
    ELSE IF cf[conflict_id].status \in {"RESOLVED", "ARCHIVED"}
    THEN [conflicts |-> cf, result |-> "err_cannot_assign"]
    ELSE ConflictRepository_assign(cf, conflict_id, assigned_to, now)

\* ConflictService.resolve_conflict: refused for RESOLVED and for OPEN, and
\* for no other status.
resolve_conflict(cf, conflict_id, resolved_by, now) ==
    IF conflict_id \notin DOMAIN cf
    THEN [conflicts |-> cf, result |-> "err_not_found"]
    ELSE IF cf[conflict_id].status = "RESOLVED"
    THEN [conflicts |-> cf, result |-> "err_already"]
    ELSE IF cf[conflict_id].status = "OPEN"
    THEN [conflicts |-> cf, result |-> "err_not_assigned"]
    ELSE ConflictRepository_resolve(cf, conflict_id, resolved_by, now)

\* ConflictService.archive_conflict
archive_conflict(cf, conflict_id) ==
    IF conflict_id \notin DOMAIN cf
    THEN [conflicts |-> cf, result |-> "err_not_found"]
    ELSE IF cf[conflict_id].status # "RESOLVED"
    THEN [conflicts |-> cf, result |-> "err_not_resolved"]
    ELSE ConflictRepository_archive(cf, conflict_id)

IssueFrame == UNCHANGED <<penalties, payments, cycles, assignments, clients, readings, ledger, today, pc>>

\* POST /issues/conflicts for the assignment and the cycle of the store.
CreateConflict ==
    /\ Len(conflicts) < MaxConflicts
    /\ conflicts' = create_conflict(conflicts, 1, 1)
    /\ last' = [op |-> "create_conflict", result |-> "created"]
    /\ UNCHANGED anomalies
    /\ IssueFrame

\* POST /issues/conflicts/{conflict_id}/assign
AssignConflict ==
    \E conflict_id \in 1..(Len(conflicts) + 1), assigned_to \in Admins :
        \E r \in {assign_conflict(conflicts, conflict_id, assigned_to, today)} :
            /\ conflicts' = r.conflicts
            /\ last' = [op |-> "assign_conflict", result |-> r.result,
                        conflict_id |-> conflict_id]
            /\ UNCHANGED anomalies
            /\ IssueFrame

\* POST /issues/conflicts/{conflict_id}/resolve
ResolveConflict ==
    \E conflict_id \in 1..(Len(conflicts) + 1), resolved_by \in Admins :
        \E r \in {resolve_conflict(conflicts, conflict_id, resolved_by, today)} :
            /\ conflicts' = r.conflicts
            /\ last' = [op |-> "resolve_conflict", result |-> r.result,
                        conflict_id |-> conflict_id]
            /\ UNCHANGED anomalies
            /\ IssueFrame

\* POST /issues/conflicts/{conflict_id}/archive
ArchiveConflict ==
    \E conflict_id \in 1..(Len(conflicts) + 1) :
        \E r \in {archive_conflict(conflicts, conflict_id)} :
            /\ conflicts' = r.conflicts
            /\ last' = [op |-> "archive_conflict", result |-> r.result,
                        conflict_id |-> conflict_id]
            /\ UNCHANGED anomalies
            /\ IssueFrame

NextConflict ==
    \/ CreateConflict
    \/ AssignConflict
    \/ ResolveConflict
    \/ ArchiveConflict
    \/ AdvanceDay

SpecConflict == InitIssues /\ [][NextConflict]_vars

\* The next status of the conflict lifecycle.
next_conflict_status(status) ==
    CASE status = "OPEN" -> {"ASSIGNED_TO_ADMIN"}
      [] status = "ASSIGNED_TO_ADMIN" -> {"RESOLVED"}
      [] status = "RESOLVED" -> {"ARCHIVED"}
      [] OTHER -> {}

\* C30: the status of a conflict changes only one step at a time along
\* OPEN -> ASSIGNED_TO_ADMIN -> RESOLVED -> ARCHIVED; resolve_conflict on an
\* OPEN conflict is rejected; archive_conflict is accepted only from
\* RESOLVED; and none of assign_conflict, resolve_conflict and
\* archive_conflict changes an ARCHIVED conflict.
C30_ConflictLifecycle ==
    [][/\ \A i \in DOMAIN conflicts :
            /\ i \in DOMAIN conflicts'
            /\ conflicts'[i].status # conflicts[i].status
                 => conflicts'[i].status \in next_conflict_status(conflicts[i].status)
            /\ conflicts[i].status = "ARCHIVED" => conflicts'[i] = conflicts[i]
       /\ \A i \in DOMAIN conflicts : \A admin \in Admins :
            /\ conflicts[i].status = "OPEN"
                 => LET r == resolve_conflict(conflicts, i, admin, today)
                    IN  r.result = "err_not_assigned" /\ r.conflicts = conflicts
            /\ conflicts[i].status # "RESOLVED"
                 => LET r == archive_conflict(conflicts, i)
                    IN  r.result = "err_not_resolved" /\ r.conflicts = conflicts]_vars

(***************************************************************************)
(* Rollover threshold alerts                                               *)
(***************************************************************************)
\* threshold of check_and_log_rollover_threshold: 90000.0000 m3, in 1/10000 m3.
RolloverThreshold == 900000000

\* AnomalyService.check_and_log_rollover_threshold, which nothing calls.  At
\* or above the threshold it calls repository.get_unacknowledged_threshold_alert
\* (line 266), which AnomalyRepository does not define: AttributeError.
check_and_log_rollover_threshold(an, meter_assignment_id, cycle_id, absolute_value) ==
    IF absolute_value < RolloverThreshold
    THEN [anomalies |-> an, result |-> "none"]
    ELSE [anomalies |-> an, result |-> "raise_AttributeError"]

\* The DETECTED METER_ROLLOVER_THRESHOLD anomalies of an assignment.
threshold_alerts(an, meter_assignment_id) ==
    {i \in DOMAIN an : /\ an[i].anomaly_type = "METER_ROLLOVER_THRESHOLD"
                        /\ an[i].meter_assignment_id = meter_assignment_id
                        /\ an[i].status = "DETECTED"}

\* Values just below and at the threshold.
ThresholdValues == {RolloverThreshold - 1, RolloverThreshold}

\* A store with a CLOSED cycle that holds the approved baseline of the one
\* ACTIVE assignment, and an OPEN cycle without readings.
InitAlerts ==
    /\ cycles = <<[start_date |-> 1, end_date |-> 2, target_date |-> 2, status |-> "CLOSED"],
                  [start_date |-> 3, end_date |-> 4, target_date |-> 4, status |-> "OPEN"]>>
    /\ clients = <<1>>
    /\ assignments = <<[meter_id |-> 1, client_id |-> 1, status |-> AssignmentStatus_ACTIVE]>>
    /\ readings = <<[meter_assignment_id |-> 1, cycle_id |-> 1, absolute_value |-> 10,
                     type |-> "BASELINE", consumption |-> None, has_rollover |-> FALSE,
                     approved |-> TRUE, approved_by |-> Some("admin"),
                     approved_at |-> Some(1), submitted_at |-> 1]>>
    /\ ledger = <<>>
    /\ anomalies = <<>>
    /\ conflicts = <<>>
    /\ penalties = <<>>
    /\ payments = <<>>
    /\ today = 1
    /\ last = [op |-> "init"]
    /\ pc = <<>>

\* POST /readings with a value near the threshold.
SubmitReadingNearThreshold ==
    \E meter_assignment_id \in 1..MaxClients, cycle_id \in DOMAIN cycles,
       absolute_value \in ThresholdValues :
        \E r \in {submit_reading(assignments, cycles, readings, anomalies,
                                  meter_assignment_id, cycle_id, absolute_value,
                                  today)} :
            /\ readings' = r.readings
            /\ anomalies' = r.anomalies
            /\ last' = [op |-> "submit_reading", result |-> r.result,
                        meter_assignment_id |-> meter_assignment_id,
                        cycle_id |-> cycle_id, absolute_value |-> absolute_value]
            /\ UNCHANGED <<conflicts, penalties, payments, cycles, assignments, clients, ledger, today, pc>>

NextAlerts ==
    \/ SubmitReadingNearThreshold
    \/ CreateAnomaly
    \/ AcknowledgeAnomaly
    \/ ResolveAnomaly
    \/ AdvanceDay

SpecAlerts == InitAlerts /\ [][NextAlerts]_vars

\* The checks of a submission pass: the assignment is ACTIVE with a baseline,
\* the cycle is OPEN and holds no reading of the assignment.
submission_is_valid(meter_assignment_id, cycle_id) ==
    /\ meter_assignment_id \in DOMAIN assignments
    /\ assignments[meter_assignment_id].status = AssignmentStatus_ACTIVE
    /\ cycle_id \in DOMAIN cycles
    /\ cycles[cycle_id].status = "OPEN"
    /\ get_baseline_reading(readings, meter_assignment_id) # {}
    /\ get_by_assignment_and_cycle(readings, meter_assignment_id, cycle_id) = {}

C32_ThresholdAlertCreated ==
    [][(/\ last'.op = "submit_reading"
        /\ submission_is_valid(last'.meter_assignment_id, last'.cycle_id)
        /\ threshold_alerts(anomalies, last'.meter_assignment_id) = {})
        => IF last'.absolute_value >= RolloverThreshold
           THEN /\ Len(anomalies') = Len(anomalies) + 1
                /\ anomalies'[Len(anomalies')].anomaly_type = "METER_ROLLOVER_THRESHOLD"
                /\ anomalies'[Len(anomalies')].severity = "CRITICAL"
                /\ anomalies'[Len(anomalies')].status = "DETECTED"
                /\ anomalies'[Len(anomalies')].meter_assignment_id
                     = last'.meter_assignment_id
           ELSE \A i \in DOMAIN anomalies' :
                    anomalies'[i].anomaly_type = "METER_ROLLOVER_THRESHOLD"
                    => i \in DOMAIN anomalies]_vars

(***************************************************************************)
(* Properties of the scheduler                                             *)
(***************************************************************************)
\* C33: schedule_cycles for n cycles on a store without cycles returns
\* without error, has created n cycles, and each cycle after the first
\* starts the day after the one before it ends.
C33_ScheduleCreatesAll ==
    [][(cycles = <<>> /\ last'.op = "schedule_cycles")
        => /\ last'.result = "created"
           /\ Len(cycles') = last'.num_cycles
           /\ \A k \in 1..(Len(cycles') - 1) :
                 cycles'[k + 1].start_date = cycles'[k].end_date + 1]_vars

CoreOperations ==
    {"submit_reading", "approve_reading", "reject_reading", "verify_rollover",
     "reject_rollover_as_error", "transition_status", "generate_cycle_charges",
     "apply_penalty_to_ledger", "allocate_payment_fifo"}

\* The exceptions an operation of the model can end by.
Raised ==
    {"raise_TypeError", "raise_AttributeError", "raise_IntegrityError", "raise_DataError"}

\* C35: a core operation ends by returning a result or an error value, for
\* every input and every store; none ends by raising an exception.
C35_OperationsNeverRaise ==
    last.op \in CoreOperations => last.result \notin Raised

(***************************************************************************)
(* Atomicity of the ledger writes of one call                              *)
(***************************************************************************)
\* Readings of 0.0001 m3 ("tick") and of 10000 m3 ("bulk"), and a tariff of
\* 1000000.00 per m3: a tick is billed 100.00, a bulk total does not fit
\* column amount.
TariffKinds == {"unapproved", "tick", "bulk"}
Tariffs == {100000000}

InitTariff ==
    /\ cycles = <<[start_date |-> 1, end_date |-> 2, target_date |-> 2, status |-> "CLOSED"],
                  [start_date |-> 3, end_date |-> 4, target_date |-> 4,
                   status |-> "PENDING_REVIEW"]>>
    /\ clients = <<1, 2>>
    /\ assignments = [i \in 1..2 |-> [meter_id |-> i, client_id |-> i,
                                       status |-> AssignmentStatus_ACTIVE]]
    /\ \E kind \in [3..5 -> TariffKinds] : readings = billing_readings(kind)
    /\ ledger = <<>>
    /\ anomalies = <<>>
    /\ conflicts = <<>>
    /\ penalties = <<>>
    /\ payments = <<>>
    /\ today = 3
    /\ last = [op |-> "init"]
    /\ pc = <<>>

\* POST /cycles/{cycle_id}/generate-charges with the tariff.
GenerateChargesAtTariff ==
    \E cycle_id \in 1..(Len(cycles) + 1), rate_per_m3 \in Tariffs :
        \E r \in {generate_cycle_charges(cycles, readings, ledger, cycle_id,
                                          rate_per_m3, "system")} :
            /\ Len(r.ledger) + Len(penalties) + Len(payments) <= MaxLedger
            /\ ledger' = r.ledger
            /\ last' = [op |-> "generate_cycle_charges", result |-> r.result,
                        cycle_id |-> cycle_id]
            /\ UNCHANGED <<conflicts, penalties, payments, cycles, assignments, clients, readings, anomalies, today, pc>>

NextTariff ==
    \/ TransitionStatus
    \/ GenerateChargesAtTariff
    \/ CreatePayment
    \/ AllocatePaymentFifo

SpecTariff == InitTariff /\ [][NextTariff]_vars

\* C36: a generate_cycle_charges or allocate_payment_fifo call that fails
\* leaves none of its ledger entries in the store: the ledger is the one
\* from before the call.
C36_LedgerWritesAllOrNone ==
    [][(/\ last'.op \in {"generate_cycle_charges", "allocate_payment_fifo"}
        /\ last'.result \in Raised)
        => ledger' = ledger]_vars

(***************************************************************************)
(* Resubmission after a rejection                                          *)
(***************************************************************************)
Rejections == {"reject_reading", "reject_rollover_as_error"}

\* A store whose OPEN cycle holds a reading of the meter that waits for the
\* admin: the BASELINE in the CLOSED cycle, a NORMAL reading in the OPEN one.
InitResubmit ==
    /\ cycles = <<[start_date |-> 1, end_date |-> 2, target_date |-> 2, status |-> "CLOSED"],
                  [start_date |-> 3, end_date |-> 4, target_date |-> 4, status |-> "OPEN"]>>
    /\ clients = <<1>>
    /\ assignments = <<[meter_id |-> 1, client_id |-> 1, status |-> AssignmentStatus_ACTIVE]>>
    /\ \E value \in ReadingValues, baseline_approved \in BOOLEAN :
        readings = [i \in 1..2 |->
                       approval_readings([c \in {2, 3} |-> value],
                                         baseline_approved, FALSE)[i]]
    /\ ledger = <<>>
    /\ anomalies = <<>>
    /\ conflicts = <<>>
    /\ penalties = <<>>
    /\ payments = <<>>
    /\ today = 3
    /\ last = [op |-> "init"]
    /\ pc = <<>>

NextResubmit ==
    \/ SubmitReading
    \/ ApproveReading
    \/ RejectReading
    \/ RejectRollover

SpecResubmit == InitResubmit /\ [][NextResubmit]_vars

\* C37: reject_reading or reject_rollover_as_error on an unapproved reading
\* leaves the reading in the store, unapproved; and a submit_reading that
\* follows for the assignment and the OPEN cycle of the rejected reading is
\* accepted: it stores a new reading for them.
C37_ResubmitAfterReject ==
    [][/\ (/\ last'.op \in Rejections
           /\ last'.reading_id \in DOMAIN readings
           /\ ~readings[last'.reading_id].approved)
            => /\ last'.reading_id \in DOMAIN readings'
               /\ ~readings'[last'.reading_id].approved
       /\ (/\ last.op \in Rejections
           /\ last.reading_id \in DOMAIN readings
           /\ ~readings[last.reading_id].approved
           /\ last'.op = "submit_reading"
           /\ last'.meter_assignment_id = readings[last.reading_id].meter_assignment_id
           /\ last'.cycle_id = readings[last.reading_id].cycle_id
           /\ cycles[last'.cycle_id].status = "OPEN"
           /\ assignments[last'.meter_assignment_id].status = AssignmentStatus_ACTIVE)
            => \E i \in DOMAIN readings' \ DOMAIN readings :
                 /\ readings'[i].meter_assignment_id = last'.meter_assignment_id
                 /\ readings'[i].cycle_id = last'.cycle_id]_vars

(***************************************************************************)
(* Repeated payment allocation                                             *)
(***************************************************************************)
\* The total of the PAYMENT entries among the ids S of the ledger.
RECURSIVE allocated_total(_, _)
allocated_total(lg, S) ==
    IF S = {} THEN 0
    ELSE LET i == CHOOSE x \in S : TRUE
         IN  lg[i].amount + allocated_total(lg, S \ {i})

\* The PAYMENT entries allocate_payment_fifo created.
allocations(lg) ==
    {i \in DOMAIN lg : /\ lg[i].entry_type = "PAYMENT"
                        /\ lg[i].description.text = "Payment allocation"}

non_decreasing(rd, meter_assignment_id) ==
    \A i, j \in DOMAIN rd :
        (/\ rd[i].meter_assignment_id = meter_assignment_id
         /\ rd[j].meter_assignment_id = meter_assignment_id
         /\ rd[i].submitted_at <= rd[j].submitted_at)
        => rd[i].absolute_value <= rd[j].absolute_value

\* C40: when the readings of an assignment do not decrease in submission
\* order, approve_reading without override leaves no reading of it with
\* has_rollover set, in whatever order the readings are approved, and the
\* reading it measures the consumption from was not submitted after the
\* reading it approves.
C40_ApprovalOrderIndependent ==
    [][(/\ last'.op = "approve_reading"
        /\ last'.admin_consumption_override = None
        /\ last'.reading_id \in DOMAIN readings
        /\ ~readings[last'.reading_id].approved
        /\ readings[last'.reading_id].type = "NORMAL"
        /\ non_decreasing(readings, readings[last'.reading_id].meter_assignment_id))
        => /\ \A i \in DOMAIN readings' :
                 readings'[i].meter_assignment_id
                     = readings[last'.reading_id].meter_assignment_id
                 => ~readings'[i].has_rollover
           /\ last'.prev_reading # None
                => readings[last'.prev_reading[1]].submitted_at
                       <= readings[last'.reading_id].submitted_at]_vars

====
